---- MODULE Spec2Model ----
(***************************************************************************)
(* GeoGuessrDesktop userscript registry (src-tauri/src/lib.rs): the        *)
(* Script collection, the Dependency cache, the remote fetcher, the        *)
(* metadata parser, the registry commands and the auto-updater.            *)
(*                                                                         *)
(* Conventions.  Option<T> is a sequence of length at most one: None is    *)
(* <<>> and Some(v) is <<v>>.  A URL is the pair <<scheme, rest>>.  A      *)
(* script text is a sequence of lines, each line a tuple whose first       *)
(* element says what the line is.  A Result is a record with an ok flag.   *)
(* Each command is one atomic action: it runs with the Scripts and         *)
(* Dependencies locks held from its first line to its clone-and-drop.      *)
(***************************************************************************)
EXTENDS Integers, Sequences, FiniteSets, TLC

VARIABLES
    scripts,        \* AppState.scripts: Vec<UserScript>
    dependencies,   \* AppState.dependencies: HashMap<String, ScriptDependency>
    disk_scripts,   \* content of scripts.json
    disk_deps,      \* content of dependencies.json
    now,            \* the wall clock, Utc::now().timestamp() as u64
    poisoned,       \* a command panicked while it held the two mutexes
    calls,          \* the number of commands run so far
    dep_fetches,    \* per URL, the dependency fetches that succeeded since the
                    \* process started
    call,           \* the last command: name, arguments, result, requests,
                    \* writes, and the collection and cache it started from
    page,           \* the top-level window the payload is handed to: its
                    \* document, the listeners on it and the bridge requests
    rt              \* the commands in progress on their threads, the owners
                    \* of the two mutexes and the RELOADING flag

vars ==
    <<scripts, dependencies, disk_scripts, disk_deps, now, poisoned, calls,
      dep_fetches, call, page, rt>>

-----------------------------------------------------------------------------
(* Option<T> *)
None == <<>>
Some(v) == <<v>>
IsSome(o) == o # <<>>
Unwrap(o) == o[1]

(* i32 *)
I32Max == 2147483647
I32Min == (-2147483647) - 1

\* The indices of a sequence.
Indices(s) == 1..Len(s)

\* The smallest element of a non-empty set of integers, and the largest.
Min(S) == CHOOSE x \in S : \A y \in S : x <= y
Max(S) == CHOOSE x \in S : \A y \in S : y <= x

-----------------------------------------------------------------------------
(* URLs and remote texts the model draws its inputs from *)

Https(rest) == <<"https", rest>>

U1 == Https("s1")
U2 == Https("s2")
D1 == Https("d1")
D2 == Https("d2")

\* A script URL and a dependency URL that are not https, a script that
\* requires the latter, and a script and a dependency whose bodies are large.
H1 == <<"http", "s1">>
DH == <<"http", "d3">>
U3 == Https("s3")
U4 == Https("s4")
D3 == Https("d3")

\* A scheme test that lets http through as well.
StartsWithHttps_OrHttp(url) == url[1] \in {"http", "https"}

\* url.starts_with("https://")
StartsWithHttps(url) == url[1] = "https"

\* Script texts.  A header line is <<"open">>, <<"close">>, or a directive
\* <<"@name", value>>, <<"@version", value>>, <<"@description", value>>,
\* <<"@author", value>>, <<"@require", url>>; any other line is <<"js", text>>.
TextA1 ==
    << <<"open">>, <<"@name", "A">>, <<"@version", "1">>,
       <<"@require", D1>>, <<"close">>, <<"js", "a1">> >>
TextA2 ==
    << <<"open">>, <<"@name", "A">>, <<"@version", "2">>, <<"@author", "x">>,
       <<"@require", D1>>, <<"@require", D2>>, <<"close">>, <<"js", "a2">> >>
TextB ==
    << <<"js", "pre">>, <<"open">>, <<"@description", "b">>,
       <<"@require", D2>>, <<"@require", D1>>, <<"@require", D2>>,
       <<"close">>, <<"js", "b">> >>
TextC0 ==
    << <<"open">>, <<"@name", "C">>, <<"@require", D1>>, <<"close">>,
       <<"js", "c0">> >>
TextC ==
    << <<"open">>, <<"@name", "C">>, <<"@require", D1>>, <<"@require", DH>>,
       <<"close">>, <<"js", "c">> >>
TextD ==
    << <<"open">>, <<"@name", "D">>, <<"@require", D3>>, <<"close">>,
       <<"js", "d">> >>
TextLib1 == << <<"js", "lib1">> >>
TextLib3 == << <<"js", "lib3">> >>
TextLib2 == << <<"js", "lib2">> >>
TextManual == << <<"js", "manual">> >>

\* The texts a URL may serve.
Serves(url) ==
    CASE url = U1 -> {TextA1, TextA2}
      [] url = U2 -> {TextB}
      [] url = D1 -> {TextLib1}
      [] url = D2 -> {TextLib2}
      [] url = H1 -> {TextA1}
      [] url = DH -> {TextLib1}
      [] url = U3 -> {TextC0, TextC}
      [] url = U4 -> {TextD}
      [] url = D3 -> {TextLib3}
      [] OTHER -> {}

ScriptUrls == {U1, U2}
AllUrls == {U1, U2, D1, D2}

-----------------------------------------------------------------------------
(* parse_metadata *)

\* Position of the first line of s at or after index i that equals l; 0 if none.
RECURSIVE FindLine(_, _, _)
FindLine(s, l, i) ==
    IF i > Len(s) THEN 0
    ELSE IF s[i] = l THEN i
    ELSE FindLine(s, l, i + 1)

\* captures.get(1) of //\s*==UserScript==(.*?)//\s*==/UserScript==: the lines
\* between the first open marker and the first close marker after it, or None.
MetadataBlock(code) ==
    LET o == FindLine(code, <<"open">>, 1)
        c == IF o = 0 THEN 0 ELSE FindLine(code, <<"close">>, o + 1)
    IN  IF o = 0 \/ c = 0 THEN None
        ELSE Some(SubSeq(code, o + 1, c - 1))

\* Regex::new(r"@key\s+(.+)").captures(block): the value of the first line of
\* the block with that directive, if any.
RECURSIVE FirstDirective(_, _, _)
FirstDirective(block, key, i) ==
    IF i > Len(block) THEN None
    ELSE IF block[i][1] = key THEN Some(block[i][2])
    ELSE FirstDirective(block, key, i + 1)

\* require_regex.captures_iter(block): every @require line whose value starts
\* with http:// or https://, in source order, pushed one by one.
RECURSIVE Requires(_, _)
Requires(block, i) ==
    IF i > Len(block) THEN <<>>
    ELSE IF block[i][1] = "@require" /\ block[i][2][1] \in {"http", "https"}
         THEN <<block[i][2]>> \o Requires(block, i + 1)
         ELSE Requires(block, i + 1)

DefaultMetadata ==
    [name |-> None, version |-> None, description |-> None, author |-> None,
     requires |-> <<>>]

parse_metadata(code) ==
    LET b == MetadataBlock(code)
    IN  IF ~IsSome(b) THEN DefaultMetadata
        ELSE [name |-> FirstDirective(Unwrap(b), "@name", 1),
              version |-> FirstDirective(Unwrap(b), "@version", 1),
              description |-> FirstDirective(Unwrap(b), "@description", 1),
              author |-> FirstDirective(Unwrap(b), "@author", 1),
              requires |-> Requires(Unwrap(b), 1)]

-----------------------------------------------------------------------------
(* fetch_script_from_url *)

\* What the network answers to one GET: a transport failure, or a response
\* with a status, an optional content-type and a body of `len` bytes.
MaxBodyLen == 10 * 1024 * 1024

ErrHttps == <<"Only HTTPS URLs are supported for security reasons">>
ErrTimeout == <<"Request timed out after 30 seconds">>
ErrTooLarge == <<"Script too large (>10MB)">>

OkResponse(text) ==
    [net |-> "ok", status |-> 200, ctype |-> Some("text/javascript"),
     body |-> text, len |-> Len(text)]
TimeoutResponse ==
    [net |-> "timeout", status |-> 0, ctype |-> None, body |-> <<>>, len |-> 0]

\* The body sizes, in bytes, of the answers for the large bodies: exactly the
\* limit, and one byte more.
Sizes(url) == IF url \in {U4, D3} THEN {MaxBodyLen, MaxBodyLen + 1} ELSE {}

\* The answers the network may give to a GET of url.
Responses(url) ==
    {TimeoutResponse}
      \cup {OkResponse(t) : t \in Serves(url)}
      \cup {[OkResponse(t) EXCEPT !.len = n] : t \in Serves(url), n \in Sizes(url)}

\* Result<T, String>
Ok(v) == [ok |-> TRUE, val |-> <<v>>, err |-> <<>>]
Err(e) == [ok |-> FALSE, val |-> <<>>, err |-> e]

\* content_type_str.contains("javascript") || contains("text/plain")
IsScriptContentType(ct) ==
    ct \in {"text/javascript", "application/javascript", "text/plain"}

\* A size check that also rejects a body of exactly the limit.
Classify_Inclusive(url, r) ==
    IF r.net = "timeout" THEN Err(ErrTimeout)
    ELSE IF r.net = "connect" THEN Err(<<"Failed to connect to", url>>)
    ELSE IF r.net # "ok" THEN Err(<<"Network error", r.net>>)
    ELSE IF r.status \notin 200..299 THEN Err(<<"HTTP", r.status>>)
    ELSE IF IsSome(r.ctype) /\ ~IsScriptContentType(Unwrap(r.ctype))
         THEN Err(<<"Expected JavaScript, got content-type", Unwrap(r.ctype)>>)
    ELSE IF r.len >= MaxBodyLen THEN Err(ErrTooLarge)
    ELSE Ok(r.body)

\* What fetch_script_from_url makes of the answer r to its request.
Classify(url, r) ==
    IF r.net = "timeout" THEN Err(ErrTimeout)
    ELSE IF r.net = "connect" THEN Err(<<"Failed to connect to", url>>)
    ELSE IF r.net # "ok" THEN Err(<<"Network error", r.net>>)
    ELSE IF r.status \notin 200..299 THEN Err(<<"HTTP", r.status>>)
    ELSE IF IsSome(r.ctype) /\ ~IsScriptContentType(Unwrap(r.ctype))
         THEN Err(<<"Expected JavaScript, got content-type", Unwrap(r.ctype)>>)
    ELSE IF r.len > MaxBodyLen THEN Err(ErrTooLarge)
    ELSE Ok(r.body)

\* A fetch that sends the request whatever the scheme of the URL.
fetch_script_from_url_AnyScheme(url) ==
    {[res |-> Classify(url, r), sent |-> TRUE, len |-> r.len] : r \in Responses(url)}

\* The results fetch_script_from_url(url) may return, one for each answer of
\* the network.  `sent` says whether a request left the process, `len` how
\* many bytes the body of the answer had.
fetch_script_from_url(url) ==
    IF ~StartsWithHttps(url)
    THEN {[res |-> Err(ErrHttps), sent |-> FALSE, len |-> 0]}
    ELSE {[res |-> Classify(url, r), sent |-> TRUE, len |-> r.len] :
            r \in Responses(url)}

\* One entry of a command's request log: the URL, what it was fetched as
\* ("script" or "dependency"), what fetch_script_from_url returned and the
\* size of the body it read.
Request(url, kind, f) ==
    [url |-> url, kind |-> kind, res |-> f.res, len |-> f.len]
Logged(url, kind, f) == IF f.sent THEN <<Request(url, kind, f)>> ELSE <<>>

-----------------------------------------------------------------------------
(* fetch_script_with_dependencies *)

\* A cache that is never consulted.
ContainsKey_Never(cache, url) == FALSE

\* dependency_cache.contains_key(dep_url)
ContainsKey(cache, url) == url \in DOMAIN cache

\* dependency_cache.insert(key, value)
Insert(cache, key, value) ==
    [u \in DOMAIN cache \cup {key} |-> IF u = key THEN value ELSE cache[u]]

ScriptDependency(url, code, t) == [url |-> url, code |-> code, last_updated |-> t]

ErrDependency(dep_url, e) == <<"Failed to fetch dependency", dep_url, e>>

\* The loop with a failed dependency skipped instead of returned.
RECURSIVE FetchDependencies_SkipFailed(_, _, _, _)
FetchDependencies_SkipFailed(requires, i, cache, t) ==
    IF i > Len(requires) THEN {[cache |-> cache, err |-> None, log |-> <<>>]}
    ELSE LET dep_url == requires[i]
         IN  IF ContainsKey(cache, dep_url)
             THEN FetchDependencies_SkipFailed(requires, i + 1, cache, t)
             ELSE UNION {
                    {[rest EXCEPT !.log = Logged(dep_url, "dependency", f) \o @] :
                       rest \in FetchDependencies_SkipFailed(requires, i + 1,
                                  IF f.res.ok
                                  THEN Insert(cache, dep_url,
                                         ScriptDependency(dep_url, Unwrap(f.res.val), t))
                                  ELSE cache,
                                  t)}
                    : f \in fetch_script_from_url(dep_url)}

\* The loop over metadata.requires from index i on.  Each element of the
\* result is one way the loop may go: the cache it leaves, the error it
\* returned with (None when it ran to the end) and its requests.
RECURSIVE FetchDependencies(_, _, _, _)
FetchDependencies(requires, i, cache, t) ==
    IF i > Len(requires) THEN {[cache |-> cache, err |-> None, log |-> <<>>]}
    ELSE LET dep_url == requires[i]
         IN  IF ContainsKey(cache, dep_url)
             THEN FetchDependencies(requires, i + 1, cache, t)
             ELSE UNION {
                    IF f.res.ok
                    THEN {[rest EXCEPT !.log = Logged(dep_url, "dependency", f) \o @] :
                            rest \in FetchDependencies(requires, i + 1,
                                       Insert(cache, dep_url,
                                         ScriptDependency(dep_url, Unwrap(f.res.val), t)),
                                       t)}
                    ELSE {[cache |-> cache,
                           err |-> Some(ErrDependency(dep_url, f.res.err)),
                           log |-> Logged(dep_url, "dependency", f)]}
                    : f \in fetch_script_from_url(dep_url)}

UnwrapOr(o, d) == IF IsSome(o) THEN Unwrap(o) ELSE d

\* The UserScript built at the end of fetch_script_with_dependencies.
NewUserScript(uuid, url, code, metadata, t) ==
    [id |-> uuid,
     name |-> UnwrapOr(metadata.name, "Unnamed Script"),
     code |-> code,
     enabled |-> TRUE,
     order |-> 0,
     url |-> Some(url),
     version |-> metadata.version,
     description |-> metadata.description,
     author |-> metadata.author,
     requires |-> metadata.requires,
     last_updated |-> Some(t),
     last_fetch_error |-> None]

\* What follows the fetch f of the main script: `?` on its error, else the
\* metadata, the dependency loop and the new UserScript.
AfterFetch(f, url, cache, t, uuid) ==
    LET l == Logged(url, "script", f)
    IN  IF ~f.res.ok THEN {[res |-> Err(f.res.err), cache |-> cache, log |-> l]}
        ELSE LET code == Unwrap(f.res.val)
                 metadata == parse_metadata(code)
             IN  {IF IsSome(d.err)
                  THEN [res |-> Err(Unwrap(d.err)), cache |-> d.cache, log |-> l \o d.log]
                  ELSE [res |-> Ok(NewUserScript(uuid, url, code, metadata, t)),
                        cache |-> d.cache, log |-> l \o d.log]
                  : d \in FetchDependencies(metadata.requires, 1, cache, t)}

\* Each element is one way the call may go.  res: Ok(script) or Err(message);
\* cache: the dependency cache afterwards; log: the requests made, in order.
fetch_script_with_dependencies(url, cache, t, uuid) ==
    UNION {AfterFetch(f, url, cache, t, uuid) : f \in fetch_script_from_url(url)}

-----------------------------------------------------------------------------
(* AppState::save_scripts, AppState::save_dependencies *)

ErrWriteScripts == <<"Failed to write scripts file">>
ErrWriteDependencies == <<"Failed to write dependencies file">>

Write(store, ok) == [store |-> store, ok |-> ok]

\* state.save_scripts(..)?; state.save_dependencies(..)?; Ok(value)
\* Each fs::write may fail; the second is not attempted when the first fails.
SaveBoth(value) ==
    {[res |-> Err(ErrWriteScripts), writes |-> <<Write("scripts", FALSE)>>],
     [res |-> Err(ErrWriteDependencies),
      writes |-> <<Write("scripts", TRUE), Write("dependencies", FALSE)>>],
     [res |-> Ok(value),
      writes |-> <<Write("scripts", TRUE), Write("dependencies", TRUE)>>]}

\* state.save_scripts(&scripts)?; Ok(())
SaveScripts ==
    {[res |-> Err(ErrWriteScripts), writes |-> <<Write("scripts", FALSE)>>],
     [res |-> Ok(<<>>), writes |-> <<Write("scripts", TRUE)>>]}

-----------------------------------------------------------------------------
(* The registry commands, as functions of the state they run on.  Each gives *)
(* the set of ways the call may go, one for each behaviour of the network,   *)
(* of the disk and of the build; each way is the collection and the cache    *)
(* left in memory, the result, the requests and the store writes.            *)

Outcome(ss, deps, res, log, writes) ==
    [scripts |-> ss, dependencies |-> deps, res |-> res, log |-> log,
     writes |-> writes, panic |-> FALSE]

\* A panic with both mutex guards alive: nothing is returned, both mutexes
\* are poisoned.
Panic(ss, deps, log) ==
    [scripts |-> ss, dependencies |-> deps, res |-> Err(<<"panic">>), log |-> log,
     writes |-> <<>>, panic |-> TRUE]

ErrDuplicate == <<"A script from this URL already exists">>
ErrNotFound == <<"Script not found">>
ErrManual == <<"Cannot refresh manually added script">>

\* The duplicate check comparing the Option with the bare URL: never equal.
AnyWithUrl_BareUrl(ss, url) == \E i \in Indices(ss) : ss[i].url = url

\* scripts.iter().any(|s| s.url.as_ref() == Some(&url))
AnyWithUrl(ss, url) == \E i \in Indices(ss) : ss[i].url = Some(url)

\* scripts.iter().map(|s| s.order).max().unwrap_or(-1)
MaxOrder(ss) == IF ss = <<>> THEN -1 ELSE Max({ss[i].order : i \in Indices(ss)})

\* max_order + 1 in i32: a build with overflow checks panics on overflow
\* (None here), a build without them wraps.
NextOrders(max_order) ==
    IF max_order = I32Max THEN {None, Some(I32Min)} ELSE {Some(max_order + 1)}

\* scripts.iter().position(|s| s.id == id): the first index, 0 for None.
Position(ss, id) ==
    IF \E i \in Indices(ss) : ss[i].id = id
    THEN Min({i \in Indices(ss) : ss[i].id = id})
    ELSE 0

\* Uuid::new_v4(): an id no script of the registry has.
NewUuid(ss) == Min({n \in 1..(Len(ss) + 1) : \A i \in Indices(ss) : ss[i].id # n})

\* "Assign order" and "Save" of add_script_from_url, after the fetch f
\* succeeded.
Register(ss, f) ==
    UNION {
      IF ~IsSome(o) THEN {Panic(ss, f.cache, f.log)}
      ELSE LET new_script == [Unwrap(f.res.val) EXCEPT !.order = Unwrap(o)]
           IN  {Outcome(Append(ss, new_script), f.cache, s.res, f.log, s.writes) :
                  s \in SaveBoth(new_script)}
      : o \in NextOrders(MaxOrder(ss))}

\* add_script_from_url after the duplicate check: "Fetch script and
\* dependencies", "Assign order" and "Save".
FetchAndRegister(ss, deps, url, t) ==
    UNION {
      IF ~f.res.ok THEN {Outcome(ss, f.cache, f.res, f.log, <<>>)}
      ELSE Register(ss, f)
      : f \in fetch_script_with_dependencies(url, deps, t, NewUuid(ss))}

\* add_script_from_url
add_script_from_url(ss, deps, url, t) ==
    IF AnyWithUrl(ss, url) THEN {Outcome(ss, deps, Err(ErrDuplicate), <<>>, <<>>)}
    ELSE FetchAndRegister(ss, deps, url, t)

\* A command that takes the Scripts lock alone.
ScriptsOutcome(ss, res, writes) == [scripts |-> ss, res |-> res, writes |-> writes]

\* A reorder that renormalizes: a script that already has the requested order
\* is moved one up to make room.
reorder_script_Renormalize(ss, id, new_order) ==
    LET i == Position(ss, id)
        bumped == IF new_order = I32Max THEN I32Min ELSE new_order + 1
    IN  IF i = 0 THEN {ScriptsOutcome(ss, Err(ErrNotFound), <<>>)}
        ELSE {ScriptsOutcome(
                [j \in Indices(ss) |->
                   IF j = i THEN [ss[j] EXCEPT !.order = new_order]
                   ELSE IF ss[j].order = new_order THEN [ss[j] EXCEPT !.order = bumped]
                   ELSE ss[j]],
                s.res, s.writes) :
                s \in SaveScripts}

\* reorder_script
reorder_script(ss, id, new_order) ==
    LET i == Position(ss, id)
    IN  IF i = 0 THEN {ScriptsOutcome(ss, Err(ErrNotFound), <<>>)}
        ELSE {ScriptsOutcome([ss EXCEPT ![i].order = new_order], s.res, s.writes) :
                s \in SaveScripts}

\* A toggle that saves before it looks the script up, as delete_script does.
toggle_script_SaveFirst(ss, id, enabled) ==
    LET i == Position(ss, id)
    IN  {ScriptsOutcome(IF i = 0 THEN ss ELSE [ss EXCEPT ![i].enabled = enabled],
                        s.res, s.writes) :
           s \in SaveScripts}

\* toggle_script
toggle_script(ss, id, enabled) ==
    LET i == Position(ss, id)
    IN  IF i = 0 THEN {ScriptsOutcome(ss, Err(ErrNotFound), <<>>)}
        ELSE {ScriptsOutcome([ss EXCEPT ![i].enabled = enabled], s.res, s.writes) :
                s \in SaveScripts}

\* scripts.retain(|s| s.id != id)
RECURSIVE Retain(_, _)
Retain(ss, id) ==
    IF ss = <<>> THEN <<>>
    ELSE IF Head(ss).id # id THEN <<Head(ss)>> \o Retain(Tail(ss), id)
    ELSE Retain(Tail(ss), id)

\* delete_script
delete_script(ss, id) ==
    {ScriptsOutcome(Retain(ss, id), s.res, s.writes) : s \in SaveScripts}

\* The restore with the id forgotten: the script keeps the fresh Uuid.
RestoreSettings_NoId(updated_script, script, t) ==
    [updated_script EXCEPT !.enabled = script.enabled,
                           !.order = script.order,
                           !.last_updated = Some(t),
                           !.last_fetch_error = None]

\* The restore with the enabled flag forgotten.
RestoreSettings_NoEnabled(updated_script, script, t) ==
    [updated_script EXCEPT !.id = script.id,
                           !.order = script.order,
                           !.last_updated = Some(t),
                           !.last_fetch_error = None]

\* refresh_script: "Restore user settings" and the two fields set after it.
RestoreSettings(updated_script, script, t) ==
    [updated_script EXCEPT !.id = script.id,
                           !.enabled = script.enabled,
                           !.order = script.order,
                           !.last_updated = Some(t),
                           !.last_fetch_error = None]

\* A refresh that records a failed fetch on the script, as the auto-updater
\* does, before it returns the error.
Replace_RecordFailure(ss, script_index, f, t) ==
    IF ~f.res.ok
    THEN {Outcome([ss EXCEPT ![script_index].last_fetch_error = Some(f.res.err),
                             ![script_index].last_updated = Some(t)],
                  f.cache, f.res, f.log, <<>>)}
    ELSE LET updated_script == RestoreSettings(Unwrap(f.res.val), ss[script_index], t)
         IN  {Outcome([ss EXCEPT ![script_index] = updated_script],
                      f.cache, s.res, f.log, s.writes) :
                s \in SaveBoth(updated_script)}

\* refresh_script from "Restore user settings" on, after the fetch f.
Replace(ss, script_index, f, t) ==
    IF ~f.res.ok THEN {Outcome(ss, f.cache, f.res, f.log, <<>>)}
    ELSE LET updated_script == RestoreSettings(Unwrap(f.res.val), ss[script_index], t)
         IN  {Outcome([ss EXCEPT ![script_index] = updated_script],
                      f.cache, s.res, f.log, s.writes) :
                s \in SaveBoth(updated_script)}

\* refresh_script
refresh_script(ss, deps, id, t) ==
    LET script_index == Position(ss, id)
    IN  IF script_index = 0 THEN {Outcome(ss, deps, Err(ErrNotFound), <<>>, <<>>)}
        ELSE IF ~IsSome(ss[script_index].url)
        THEN {Outcome(ss, deps, Err(ErrManual), <<>>, <<>>)}
        ELSE UNION {Replace(ss, script_index, f, t) :
                      f \in fetch_script_with_dependencies(
                              Unwrap(ss[script_index].url), deps, t, NewUuid(ss))}

-----------------------------------------------------------------------------
(* auto_update_scripts *)

one_day == 24 * 60 * 60
one_hour == 60 * 60

\* now - last_updated < bound, in u64.  A last_updated later than now wraps
\* to a difference of at least 2^64 - last_updated, which no bound here
\* exceeds.
ElapsedLess(t, last_updated, bound) ==
    IF last_updated <= t THEN t - last_updated < bound ELSE FALSE

\* The 24-hour test with <= in place of <.
UpdatedRecently_Inclusive(script, t) ==
    /\ IsSome(script.last_updated)
    /\ ElapsedLess(t, Unwrap(script.last_updated), one_day + 1)

\* The two `continue` conditions of the loop body.
UpdatedRecently(script, t) ==
    IsSome(script.last_updated) /\ ElapsedLess(t, Unwrap(script.last_updated), one_day)
RecentError(script, t) ==
    /\ IsSome(script.last_fetch_error)
    /\ IsSome(script.last_updated)
    /\ ElapsedLess(t, Unwrap(script.last_updated), one_hour)

\* The Ok(updated) arm.
ApplyUpdate(script, updated, t) ==
    [script EXCEPT !.code = updated.code,
                   !.name = updated.name,
                   !.version = updated.version,
                   !.description = updated.description,
                   !.author = updated.author,
                   !.requires = updated.requires,
                   !.last_updated = Some(t),
                   !.last_fetch_error = None]

\* The Err(e) arm with the time stamp left as it was.
RecordFailure_KeepStamp(script, e, t) ==
    [script EXCEPT !.last_fetch_error = Some(e)]

\* The Err(e) arm.
RecordFailure(script, e, t) ==
    [script EXCEPT !.last_fetch_error = Some(e), !.last_updated = Some(t)]

\* `if let Some(url) = &script.url` and the two `continue`s.
Due(script, t) ==
    IsSome(script.url) /\ ~UpdatedRecently(script, t) /\ ~RecentError(script, t)

\* `now - last_updated` is evaluated, at the first `continue` test, with a
\* last_updated later than now: the u64 subtraction overflows.
Underflows(script, t) ==
    IsSome(script.url) /\ IsSome(script.last_updated) /\ Unwrap(script.last_updated) > t

\* What the overflowing subtraction does to the iteration: a build with
\* overflow checks panics, a build without them goes on with the wrapped
\* difference (ElapsedLess).
Overflow(script, cache, t) ==
    IF Underflows(script, t)
    THEN {[script |-> script, cache |-> cache, log |-> <<>>, updated |-> 0,
           panic |-> TRUE]}
    ELSE {}

\* An iteration that stamps last_updated on the scripts it skips too.
UpdateOne_StampSkipped(script, cache, t, uuid) ==
    IF ~Due(script, t)
    THEN {[script |-> [script EXCEPT !.last_updated = Some(t)], cache |-> cache,
           log |-> <<>>, updated |-> 0, panic |-> FALSE]}
    ELSE {IF f.res.ok
          THEN [script |-> ApplyUpdate(script, Unwrap(f.res.val), t),
                cache |-> f.cache, log |-> f.log, updated |-> 1, panic |-> FALSE]
          ELSE [script |-> RecordFailure(script, f.res.err, t),
                cache |-> f.cache, log |-> f.log, updated |-> 0, panic |-> FALSE]
          : f \in fetch_script_with_dependencies(Unwrap(script.url), cache, t, uuid)}

\* One iteration of `for script in scripts.iter_mut()`: the ways it may go.
UpdateOne(script, cache, t, uuid) ==
    Overflow(script, cache, t) \cup
    (IF ~Due(script, t)
     THEN {[script |-> script, cache |-> cache, log |-> <<>>, updated |-> 0,
            panic |-> FALSE]}
     ELSE {IF f.res.ok
           THEN [script |-> ApplyUpdate(script, Unwrap(f.res.val), t),
                 cache |-> f.cache, log |-> f.log, updated |-> 1, panic |-> FALSE]
           ELSE [script |-> RecordFailure(script, f.res.err, t),
                 cache |-> f.cache, log |-> f.log, updated |-> 0, panic |-> FALSE]
           : f \in fetch_script_with_dependencies(Unwrap(script.url), cache, t, uuid)})

\* The loop from index i on, over the collection ss as updated so far.
RECURSIVE UpdateLoop(_, _, _, _, _)
UpdateLoop(ss, i, cache, t, uuid) ==
    IF i > Len(ss)
    THEN {[scripts |-> ss, cache |-> cache, log |-> <<>>, updated_count |-> 0,
           panic |-> FALSE]}
    ELSE UNION {
           IF one.panic
           THEN {[scripts |-> ss, cache |-> cache, log |-> <<>>,
                  updated_count |-> 0, panic |-> TRUE]}
           ELSE {[rest EXCEPT !.log = one.log \o @,
                              !.updated_count = one.updated + @] :
                   rest \in UpdateLoop([ss EXCEPT ![i] = one.script], i + 1,
                                       one.cache, t, uuid)}
           : one \in UpdateOne(ss[i], cache, t, uuid)}

\* A panic in the loop unwinds with both guards alive: the scripts and the
\* cache stay as the iterations before it left them, and nothing is saved.
auto_update_scripts(ss, deps, t) ==
    UNION {
      IF l.panic THEN {Panic(l.scripts, l.cache, l.log)}
      ELSE {Outcome(l.scripts, l.cache, s.res, l.log, s.writes) :
              s \in SaveBoth(l.updated_count)}
      : l \in UpdateLoop(ss, 1, deps, t, NewUuid(ss))}

-----------------------------------------------------------------------------
(* get_initialization_script: the part of the payload that depends on the   *)
(* registry.  The payload is the sequence of its units in the order they    *)
(* are pushed: one unit per injectIntoPage(..) line and one per warning of  *)
(* a missing dependency.                                                     *)

\* scripts.iter().filter(|s| s.enabled).collect()
EnabledScripts(ss) == SelectSeq(ss, LAMBDA s : s.enabled)

\* A sort that puts a script before the scripts of equal order already placed.
RECURSIVE SortByKey_Unstable(_)
SortByKey_Unstable(ss) ==
    IF ss = <<>> THEN <<>>
    ELSE LET sorted == SortByKey_Unstable(SubSeq(ss, 1, Len(ss) - 1))
             last == ss[Len(ss)]
             k == Cardinality({i \in Indices(sorted) : sorted[i].order < last.order})
         IN  SubSeq(sorted, 1, k) \o <<last>> \o SubSeq(sorted, k + 1, Len(sorted))

\* enabled_scripts.sort_by_key(|s| s.order): a stable sort, ascending.  Each
\* script goes behind the scripts before it whose order is not larger.
RECURSIVE SortByKey(_)
SortByKey(ss) ==
    IF ss = <<>> THEN <<>>
    ELSE LET sorted == SortByKey(SubSeq(ss, 1, Len(ss) - 1))
             last == ss[Len(ss)]
             k == Cardinality({i \in Indices(sorted) : sorted[i].order <= last.order})
         IN  SubSeq(sorted, 1, k) \o <<last>> \o SubSeq(sorted, k + 1, Len(sorted))

\* The two nested loops over script.requires of the enabled scripts, as one
\* list of URLs in the order they are visited.
RECURSIVE VisitedRequires(_)
VisitedRequires(enabled_scripts) ==
    IF enabled_scripts = <<>> THEN <<>>
    ELSE Head(enabled_scripts).requires \o VisitedRequires(Tail(enabled_scripts))

\* The collection with seen_requires never consulted.
RECURSIVE PushUnseen_All(_, _)
PushUnseen_All(urls, all_requires) ==
    IF urls = <<>> THEN all_requires
    ELSE PushUnseen_All(Tail(urls), Append(all_requires, Head(urls)))

\* if seen_requires.insert(req_url) { all_requires.push(req_url) }
RECURSIVE PushUnseen(_, _)
PushUnseen(urls, all_requires) ==
    IF urls = <<>> THEN all_requires
    ELSE PushUnseen(Tail(urls),
                    IF \E i \in Indices(all_requires) : all_requires[i] = Head(urls)
                    THEN all_requires
                    ELSE Append(all_requires, Head(urls)))

AllRequires(enabled_scripts) == PushUnseen(VisitedRequires(enabled_scripts), <<>>)

\* injectIntoPage(decodeBase64(dep.code), 'dependency-{dep_index}')
DependencyUnit(dep_index, req_url, dep) ==
    [kind |-> "dependency", label |-> <<"dependency", dep_index>>,
     url |-> Some(req_url), code |-> dep.code]

\* console.warn('[GeoGuessr Desktop] Missing dependency: {req_url}')
MissingUnit(req_url) ==
    [kind |-> "missing", label |-> <<>>, url |-> Some(req_url), code |-> <<>>]

\* injectIntoPage(decodeBase64(wrapped_script), '{script.name}'): the wrapper
\* runs script.code inside a try block that reports under script.name.
ScriptUnit(script) ==
    [kind |-> "script", label |-> <<script.name>>, url |-> None, code |-> script.code]

\* for (dep_index, req_url) in all_requires.iter().enumerate()
DependencyUnits(all_requires, deps) ==
    [k \in Indices(all_requires) |->
       IF all_requires[k] \in DOMAIN deps
       THEN DependencyUnit(k - 1, all_requires[k], deps[all_requires[k]])
       ELSE MissingUnit(all_requires[k])]

\* for script in enabled_scripts
ScriptUnits(enabled_scripts) ==
    [k \in Indices(enabled_scripts) |-> ScriptUnit(enabled_scripts[k])]

\* A payload that emits the scripts before the dependencies.
get_initialization_script_ScriptsFirst(ss, deps) ==
    LET enabled_scripts == SortByKey(EnabledScripts(ss))
    IN  ScriptUnits(enabled_scripts)
          \o DependencyUnits(AllRequires(enabled_scripts), deps)

get_initialization_script(ss, deps) ==
    LET enabled_scripts == SortByKey(EnabledScripts(ss))
    IN  DependencyUnits(AllRequires(enabled_scripts), deps)
          \o ScriptUnits(enabled_scripts)

-----------------------------------------------------------------------------
(* The state machine *)

MaxScripts == 2
MaxCalls == 3

Ids == 1..(MaxScripts + 1)
Orders == {0, I32Max}
Instants == {0, 25 * 60 * 60}

NoCache == [u \in {} |-> ScriptDependency(u, <<>>, 0)]

\* A script that was put into scripts.json by hand: it has no source URL.
ManualScript ==
    [id |-> 1, name |-> "Manual", code |-> TextManual, enabled |-> TRUE,
     order |-> 0, url |-> None, version |-> None, description |-> None,
     author |-> None, requires |-> <<>>, last_updated |-> None,
     last_fetch_error |-> None]

NoCall ==
    [op |-> "new", args |-> <<>>, res |-> Ok(<<>>), log |-> <<>>, writes |-> <<>>,
     scripts |-> <<>>, dependencies |-> NoCache, at |-> 0]

\* waitForGef: `var maxRetries = 20`.
maxRetries == 20

\* The events of the event framework the presence hook listens to.
GefEvents == {"game_start", "round_start", "round_end", "game_end"}

\* The presence hook before it has been evaluated.  gef is what
\* window.GeoGuessrEventFramework holds: "undefined", an object whose events
\* member is not there yet ("no_events"), or the framework ("ready").
NoPresence ==
    [initialized |-> FALSE, gef |-> "undefined", timeout |-> FALSE,
     loading |-> FALSE, interval |-> FALSE, retries |-> 0, gefLoaded |-> FALSE,
     listeners |-> [e \in GefEvents |-> 0], thrown |-> FALSE]

\* No window has been built: there is no document and nothing has run.
NoPage ==
    [init_script |-> <<>>, documentElement |-> FALSE, readyState |-> "loading",
     injected |-> FALSE, runs |-> 0, interval |-> FALSE,
     listeners |-> [e \in {"gm_xhr_request", "gm_open_external", "message"} |-> 0],
     load |-> <<>>, api |-> FALSE, console |-> <<>>, tauri |-> FALSE,
     date_now |-> 0, requests |-> <<>>, messages |-> <<>>, invokes |-> <<>>,
     presence |-> NoPresence]

MaxThreads == 2
Threads == 1..MaxThreads

\* A thread that runs no command.
Idle ==
    [pc |-> "idle", op |-> "", args |-> <<>>, need |-> <<>>, res |-> Ok(<<>>),
     writes |-> <<>>, written |-> 0, scripts_clone |-> <<>>,
     dependencies_clone |-> NoCache, init_script |-> <<>>]

\* No command is in progress: both mutexes are free (0 is no owner),
\* RELOADING is false and the event loop runs.
NoRuntime ==
    [threads |-> [t \in Threads |-> Idle],
     lock |-> [m \in {"scripts", "dependencies"} |-> 0],
     reloading |-> FALSE, exited |-> FALSE]

\* AppState::new: both documents are read from the data directory.
Init ==
    /\ disk_scripts \in {<<>>, <<ManualScript>>}
    /\ disk_deps = NoCache
    /\ scripts = disk_scripts
    /\ dependencies = disk_deps
    /\ now = 0
    /\ poisoned = FALSE
    /\ calls = 0
    /\ dep_fetches = [u \in AllUrls |-> 0]
    /\ call = NoCall
    /\ page = NoPage
    /\ rt = NoRuntime

Wrote(o, store) == \E i \in Indices(o.writes) : o.writes[i] = Write(store, TRUE)

\* The successful dependency fetches of url in a request log.
DependencyFetches(log, url) ==
    Cardinality({i \in Indices(log) :
        log[i].url = url /\ log[i].kind = "dependency" /\ log[i].res.ok})

\* A command can run.  Once a command has panicked with the mutexes held,
\* every lock().unwrap() panics: no command runs again.
Running == ~poisoned /\ calls < MaxCalls

\* A command ran and went the way r: what it leaves in memory and on disk,
\* and what it did.
Return(op, args, r) ==
    /\ calls' = calls + 1
    /\ scripts' = r.scripts
    /\ dependencies' = r.dependencies
    /\ disk_scripts' = IF Wrote(r, "scripts") THEN r.scripts ELSE disk_scripts
    /\ disk_deps' = IF Wrote(r, "dependencies") THEN r.dependencies ELSE disk_deps
    /\ poisoned' = r.panic
    /\ dep_fetches' = [u \in AllUrls |-> dep_fetches[u] + DependencyFetches(r.log, u)]
    /\ call' = [op |-> op, args |-> args, res |-> r.res, log |-> r.log,
                writes |-> r.writes, scripts |-> scripts,
                dependencies |-> dependencies, at |-> now]
    /\ UNCHANGED <<now, page, rt>>

\* A Scripts-only command that also drops the cache entries no remaining
\* script requires.
ScriptsOnly_Prune(o) ==
    LET used == {u \in DOMAIN dependencies :
                   \E i \in Indices(o.scripts) : \E r \in Indices(o.scripts[i].requires) :
                       o.scripts[i].requires[r] = u}
    IN  Outcome(o.scripts, [u \in used |-> dependencies[u]], o.res, <<>>, o.writes)

\* A command that holds the Scripts lock alone leaves the cache as it is.
ScriptsOnly(o) == Outcome(o.scripts, dependencies, o.res, <<>>, o.writes)

AddScriptFromUrl ==
    \E url \in ScriptUrls :
        /\ Running
        /\ Len(scripts) < MaxScripts
        /\ \E o \in add_script_from_url(scripts, dependencies, url, now) :
               Return("add_script_from_url", <<url>>, o)

ReorderScript ==
    \E id \in Ids, new_order \in Orders :
        /\ Running
        /\ \E o \in reorder_script(scripts, id, new_order) :
               Return("reorder_script", <<id, new_order>>, ScriptsOnly(o))

ToggleScript ==
    \E id \in Ids, enabled \in BOOLEAN :
        /\ Running
        /\ \E o \in toggle_script(scripts, id, enabled) :
               Return("toggle_script", <<id, enabled>>, ScriptsOnly(o))

DeleteScript ==
    \E id \in Ids :
        /\ Running
        /\ \E o \in delete_script(scripts, id) :
               Return("delete_script", <<id>>, ScriptsOnly(o))

RefreshScript ==
    \E id \in Ids :
        /\ Running
        /\ \E o \in refresh_script(scripts, dependencies, id, now) :
               Return("refresh_script", <<id>>, o)

AutoUpdateScripts ==
    /\ Running
    /\ \E o \in auto_update_scripts(scripts, dependencies, now) :
           Return("auto_update_scripts", <<>>, o)

\* Time passes between two commands.
Tick ==
    /\ \E t \in Instants : t > now /\ now' = t
    /\ UNCHANGED <<scripts, dependencies, disk_scripts, disk_deps, poisoned,
                   calls, dep_fetches, call, page, rt>>

Next ==
    \/ AddScriptFromUrl
    \/ ReorderScript
    \/ ToggleScript
    \/ DeleteScript
    \/ RefreshScript
    \/ AutoUpdateScripts
    \/ Tick

Spec == Init /\ [][Next]_vars

-----------------------------------------------------------------------------
(* The auto-updater on a finer clock: the instants on either side of the    *)
(* updater's two thresholds, for a script added at 0 and for an error       *)
(* stored one day later.                                                    *)

Cadence ==
    {0, one_day - 1, one_day, one_day + 30 * 60, one_day + 90 * 60, 2 * one_day}

\* Time passes between two commands.
Elapse ==
    /\ \E t \in Cadence : t > now /\ now' = t
    /\ UNCHANGED <<scripts, dependencies, disk_scripts, disk_deps, poisoned,
                   calls, dep_fetches, call, page, rt>>

UpdaterNext ==
    \/ AddScriptFromUrl
    \/ AutoUpdateScripts
    \/ Elapse

UpdaterSpec == Init /\ [][UpdaterNext]_vars

-----------------------------------------------------------------------------
(* The auto-updater under a wall clock that is set back: Utc::now() is the  *)
(* system's time, which an administrator or a time synchronisation may move *)
(* to an earlier instant between two commands.                              *)

SetBack ==
    /\ \E t \in Instants : t < now /\ now' = t
    /\ UNCHANGED <<scripts, dependencies, disk_scripts, disk_deps, poisoned,
                   calls, dep_fetches, call, page, rt>>

ClockNext ==
    \/ AddScriptFromUrl
    \/ AutoUpdateScripts
    \/ Tick
    \/ SetBack

ClockSpec == Init /\ [][ClockNext]_vars

-----------------------------------------------------------------------------
(* The payload builder, with the process restarts that let the collection   *)
(* and the cache come from stores written at different times.               *)

\* reload_scripts, and the window built at start-up: the payload is built
\* from the registry under both locks.
GetInitializationScript ==
    /\ Running
    /\ Return("get_initialization_script", <<>>,
              Outcome(scripts, dependencies,
                      Ok(get_initialization_script(scripts, dependencies)),
                      <<>>, <<>>))

\* The process ends and starts again: AppState::new reads the two stores.
Restart ==
    /\ scripts' = disk_scripts
    /\ dependencies' = disk_deps
    /\ poisoned' = FALSE
    /\ dep_fetches' = [u \in AllUrls |-> 0]
    /\ call' = NoCall
    /\ UNCHANGED <<disk_scripts, disk_deps, now, calls, page, rt>>

PayloadNext ==
    \/ AddScriptFromUrl
    \/ ReorderScript
    \/ ToggleScript
    \/ Restart
    \/ GetInitializationScript

PayloadSpec == Init /\ [][PayloadNext]_vars

-----------------------------------------------------------------------------
(* The commands that fetch, called with URLs that are not https and with    *)
(* URLs whose bodies are at the size limit and one byte over it.            *)

FetchUrls == {H1, U3, U4}

AddFromUrl ==
    \E url \in FetchUrls :
        /\ Running
        /\ Len(scripts) < MaxScripts
        /\ \E o \in add_script_from_url(scripts, dependencies, url, now) :
               Return("add_script_from_url", <<url>>, o)

FetchNext ==
    \/ AddFromUrl
    \/ RefreshScript
    \/ DeleteScript
    \/ Tick

FetchSpec == Init /\ [][FetchNext]_vars

\* The same URLs with the updater: a registered script whose remote text
\* comes to require an http URL is refreshed and auto-updated.
SchemeNext ==
    \/ AddFromUrl
    \/ RefreshScript
    \/ AutoUpdateScripts
    \/ Tick

SchemeSpec == Init /\ [][SchemeNext]_vars

-----------------------------------------------------------------------------
(* The payload at run time, in the top-level window it is handed to.  `page` *)
(* is the window: init_script the units of the payload, documentElement and *)
(* readyState the document, injected the flag                               *)
(* window.__geoguessrDesktopInjected, interval the 1 ms poll of             *)
(* waitForDocumentElement, listeners the number of trusted-side listeners   *)
(* per event, load the runScript functions waiting for the load event, api  *)
(* whether the GM_* functions are defined, console what was reported, tauri *)
(* whether window.__TAURI__ is there, date_now the reading of Date.now(),   *)
(* requests every bridge request issued so far with its response handler,   *)
(* messages the postMessage queue and invokes the promises of               *)
(* window.__TAURI__.core.invoke that have not settled.  A JavaScript task   *)
(* runs to completion, so each operator below is a function from the       *)
(* window before to the window after.                                       *)

\* The statements a script text of the model can hold, each on a line.
StmtThrow == <<"js", "throw new Error()">>
StmtSyntax == <<"js", "syntax error">>
StmtXhr == <<"js", "GM_xmlhttpRequest({url: u})">>
StmtXhrNoUrl == <<"js", "GM_xmlhttpRequest({})">>

\* The engine cannot parse the text.
Unparsable(code) == \E n \in Indices(code) : code[n] = StmtSyntax

\* console.log, console.warn, console.error and the engine's own reports.
Report(p, event, name) ==
    [p EXCEPT !.console = Append(@, [event |-> event, name |-> name])]

\* A CustomEvent 'gm_xhr_response' or a message 'gg_invoke_response'.  `of`
\* is the request the trusted side was serving when it made the reply.
Reply(channel, requestId, error, of) ==
    [channel |-> channel, requestId |-> requestId, error |-> error, of |-> of]

\* A response handler that takes every reply for its own.
DispatchResponse_AnyId(p, reply) ==
    [p EXCEPT !.requests =
       [k \in Indices(p.requests) |->
          IF /\ p.requests[k].listening
             /\ p.requests[k].channel = reply.channel
          THEN [p.requests[k] EXCEPT !.listening = FALSE,
                                     !.replies = Append(@, reply)]
          ELSE p.requests[k]]]

\* The reply reaches every response handler on the window: responseHandler of
\* GM_xmlhttpRequest and the `handler` functions of the settings panel.  A
\* handler whose requestId is the reply's removes itself and hands the reply
\* to its caller.
DispatchResponse(p, reply) ==
    [p EXCEPT !.requests =
       [k \in Indices(p.requests) |->
          IF /\ p.requests[k].listening
             /\ p.requests[k].channel = reply.channel
             /\ p.requests[k].requestId = reply.requestId
          THEN [p.requests[k] EXCEPT !.listening = FALSE,
                                     !.replies = Append(@, reply)]
          ELSE p.requests[k]]]

\* window.__TAURI__.core.invoke(..): a promise that settles later.
Invoke(p, channel, serial) ==
    [p EXCEPT !.invokes =
       Append(@, [channel |-> channel, of |-> serial,
                  requestId |-> p.requests[serial].requestId])]

\* window.postMessage(m, '*')
PostMessage(p, m) == [p EXCEPT !.messages = Append(@, m)]

\* The listener of 'gm_xhr_request' on the trusted side, for the request
\* `serial`.
OnGmXhrRequest(p, serial) ==
    LET detail == p.requests[serial]
    IN  IF ~IsSome(detail.url) THEN p
        ELSE LET heard == [p EXCEPT !.requests[serial].heard = @ + 1]
             IN  IF p.tauri THEN Invoke(heard, "gm_xhr", serial)
                 ELSE DispatchResponse(
                        Report(heard, "Tauri API not available", None),
                        Reply("gm_xhr", detail.requestId,
                              Some("Tauri API not available"), serial))

\* window.dispatchEvent(new CustomEvent('gm_xhr_request', ..)): every
\* registered listener runs, one after the other, before dispatchEvent returns.
RECURSIVE DispatchRequest(_, _, _)
DispatchRequest(p, serial, n) ==
    IF n = 0 THEN p
    ELSE DispatchRequest(OnGmXhrRequest(p, serial), serial, n - 1)

\* A bridge request and its response handler.
BridgeRequest(channel, requestId, url, command) ==
    [channel |-> channel, requestId |-> requestId, url |-> url,
     command |-> command, heard |-> 0, listening |-> TRUE, replies |-> <<>>]

\* window.GM_xmlhttpRequest(details).  Math.random() is taken to give a value
\* no earlier call gave: the number of the request stands for it.
GM_xmlhttpRequest(p, url) ==
    LET serial == Len(p.requests) + 1
        requestId == <<"gm_xhr", p.date_now, serial>>
        listening == [p EXCEPT !.requests =
                        Append(@, BridgeRequest("gm_xhr", requestId, url, None))]
    IN  DispatchRequest(listening, serial, p.listeners["gm_xhr_request"])

\* The statements of a text run in order until one throws.  Calling
\* GM_xmlhttpRequest before the API is on the window throws a ReferenceError.
RECURSIVE ExecLines(_, _, _)
ExecLines(p, code, i) ==
    IF i > Len(code) THEN [page |-> p, thrown |-> FALSE]
    ELSE IF code[i] = StmtThrow THEN [page |-> p, thrown |-> TRUE]
    ELSE IF code[i] \in {StmtXhr, StmtXhrNoUrl}
      THEN IF ~p.api THEN [page |-> p, thrown |-> TRUE]
           ELSE ExecLines(GM_xmlhttpRequest(
                            p, IF code[i] = StmtXhr THEN Some("u") ELSE None),
                          code, i + 1)
    ELSE ExecLines(p, code, i + 1)

\* injectIntoPage(code, name) of a text that is not wrapped: the text runs as
\* its script element is appended.  What it throws, and a text the engine
\* cannot parse, is reported by the engine; appendChild returns normally.
InjectText(p, code) ==
    IF Unparsable(code) THEN Report(p, "Uncaught SyntaxError", None)
    ELSE LET r == ExecLines(p, code, 1)
         IN  IF r.thrown THEN Report(r.page, "Uncaught Error", None)
             ELSE r.page

\* runScript of the wrapper: try { log; script.code; log } catch(e) { error }
runScript(p, unit) ==
    LET r == ExecLines(Report(p, "Executing script", unit.label), unit.code, 1)
    IN  IF r.thrown THEN Report(r.page, "Error in script", unit.label)
        ELSE Report(r.page, "Script completed", unit.label)

\* injectIntoPage(wrapped_script, name).  The wrapper holds script.code as
\* text inside its try block, so a script.code that does not parse makes the
\* whole wrapper unparsable: nothing of it runs, runScript included.
InjectScript(p, unit) ==
    LET queued == Report(p, "Queuing script", unit.label)
    IN  IF Unparsable(unit.code)
        THEN Report(queued, "Uncaught SyntaxError", None)
        ELSE IF queued.readyState = "complete" THEN runScript(queued, unit)
        ELSE [queued EXCEPT !.load = Append(@, unit)]

InjectUnit(p, unit) ==
    CASE unit.kind = "dependency" ->
           InjectText(Report(p, "Loading dependency", None), unit.code)
      [] unit.kind = "missing" -> Report(p, "Missing dependency", None)
      [] unit.kind = "script" -> InjectScript(p, unit)

RECURSIVE InjectUnits(_, _)
InjectUnits(p, i) ==
    IF i > Len(p.init_script) THEN p
    ELSE InjectUnits(InjectUnit(p, p.init_script[i]), i + 1)

\* The function handed to waitForDocumentElement: the Tampermonkey API, then
\* the dependencies, then the scripts.
Callback(p) ==
    InjectUnits([Report(p, "Document element ready", None) EXCEPT !.api = TRUE], 1)

\* window.addEventListener for 'gm_xhr_request', 'gm_open_external' and
\* 'message', at the end of the payload.
AddEventListeners(p) ==
    [p EXCEPT !.listeners = [e \in DOMAIN p.listeners |-> p.listeners[e] + 1]]

\* waitForDocumentElement(callback)
waitForDocumentElement(p) ==
    IF p.documentElement THEN Callback(p) ELSE [p EXCEPT !.interval = TRUE]

\* The payload without its guard against a second execution.
Payload_Unguarded(p) ==
    AddEventListeners(waitForDocumentElement([p EXCEPT !.injected = TRUE]))

\* The payload, evaluated in the top window.
Payload(p) ==
    IF p.injected THEN p
    ELSE AddEventListeners(waitForDocumentElement([p EXCEPT !.injected = TRUE]))

\* The trusted-side listener of 'message', for the message m.
OnMessage(p, m) ==
    IF m.type # "gg_invoke" THEN p
    ELSE IF ~IsSome(m.command) THEN p
    ELSE LET heard == [p EXCEPT !.requests[m.of].heard = @ + 1]
         IN  IF p.tauri THEN Invoke(heard, "gg_invoke", m.of)
             ELSE PostMessage(Report(heard, "Tauri API not available", None),
                    [type |-> "gg_invoke_response", requestId |-> m.requestId,
                     command |-> None,
                     error |-> Some("Tauri API not available"), of |-> m.of])

RECURSIVE DispatchMessage(_, _, _)
DispatchMessage(p, m, n) ==
    IF n = 0 THEN p ELSE DispatchMessage(OnMessage(p, m), m, n - 1)

-----------------------------------------------------------------------------
(* The window as a state machine: the registry is fixed, the payload built  *)
(* from it is evaluated in the window, the document comes into being and    *)
(* loads, scripts and the settings panel issue bridge requests and the      *)
(* privileged side settles them in any order.                               *)

MaxRuns == 2
MaxRequests == 2
MaxMs == 1

registry ==
    <<scripts, dependencies, disk_scripts, disk_deps, now, poisoned, calls,
      dep_fetches, call, rt>>

TextXhr == <<StmtXhr>>
TextXhrNoUrl == <<StmtXhrNoUrl>>
TextThrow == <<StmtThrow>>
TextSyntax == <<StmtSyntax>>
PageTexts == {TextManual, TextXhr, TextXhrNoUrl, TextThrow, TextSyntax}

PageScript(id, name, code, requires) ==
    [ManualScript EXCEPT !.id = id, !.name = name, !.code = code,
                         !.order = id - 1, !.requires = requires]

\* The collections the window is built from: script A alone, or A and then a
\* script B that calls GM_xmlhttpRequest as it starts.  A requires D1.
PageRegistries ==
    {<<PageScript(1, "A", a, <<D1>>)>> : a \in PageTexts}
      \cup {<<PageScript(1, "A", a, <<D1>>), PageScript(2, "B", TextXhr, <<>>)>> :
               a \in PageTexts}

\* setup: the registry as it was loaded, nothing called yet.
Setup(registries, caches) ==
    /\ scripts \in registries
    /\ dependencies \in caches
    /\ disk_scripts = scripts
    /\ disk_deps = dependencies
    /\ now = 0
    /\ poisoned = FALSE
    /\ calls = 0
    /\ dep_fetches = [u \in AllUrls |-> 0]
    /\ call = NoCall
    /\ rt = NoRuntime

\* setup: the payload is built from the state and handed to the window.
Window(documentElement, readyState, tauri) ==
    [NoPage EXCEPT !.init_script = get_initialization_script(scripts, dependencies),
                   !.documentElement = documentElement,
                   !.readyState = readyState, !.tauri = tauri]

\* The document of the window can be at any point of its loading when the
\* payload is first evaluated: without a root element, with one, or loaded.
PageInit ==
    /\ Setup(PageRegistries,
             {NoCache, [u \in {D1} |-> ScriptDependency(u, TextLib1, 0)]})
    /\ \E d \in BOOLEAN, t \in BOOLEAN, r \in {"loading", "complete"} :
         /\ r = "complete" => d
         /\ page = Window(d, r, t)

\* The window evaluates the payload.
RunPayload ==
    /\ page.runs < MaxRuns
    /\ page' = [Payload(page) EXCEPT !.runs = @ + 1]
    /\ UNCHANGED registry

\* The parser creates the root element.
CreateDocumentElement ==
    /\ ~page.documentElement
    /\ page' = [page EXCEPT !.documentElement = TRUE]
    /\ UNCHANGED registry

\* The 1 ms interval of waitForDocumentElement finds the root element.
Poll ==
    /\ page.interval
    /\ page.documentElement
    /\ page' = Callback([page EXCEPT !.interval = FALSE])
    /\ UNCHANGED registry

RECURSIVE RunLoadListeners(_, _)
RunLoadListeners(p, i) ==
    IF i > Len(p.load) THEN p
    ELSE RunLoadListeners(runScript(p, p.load[i]), i + 1)

\* The document finishes loading: readyState becomes 'complete' and the load
\* event runs the listeners in the order they were added.
Load ==
    /\ page.documentElement
    /\ page.readyState = "loading"
    /\ page' = RunLoadListeners([page EXCEPT !.readyState = "complete"], 1)
    /\ UNCHANGED registry

\* Date.now() moves on.  The reading only shows in request ids, so the clock
\* is followed from the first request on.
DateTick ==
    /\ page.requests # <<>>
    /\ page.date_now < MaxMs
    /\ page' = [page EXCEPT !.date_now = @ + 1]
    /\ UNCHANGED registry

\* A script has started.
Started(p) ==
    \E k \in Indices(p.console) : p.console[k].event = "Executing script"

\* A script that has started calls GM_xmlhttpRequest later, from a callback.
ScriptRequest ==
    /\ Started(page)
    /\ Len(page.requests) < MaxRequests
    /\ \E url \in {None, Some("u")} : page' = GM_xmlhttpRequest(page, url)
    /\ UNCHANGED registry

\* The request ids of the settings panel: 'req_' + Date.now() for refresh,
\* delete and add, 'req_' + Date.now() + '_' + index for toggle.
PanelRequestId(p, command, index) ==
    IF command = "toggle_script" THEN <<"req", p.date_now, index>>
    ELSE <<"req", p.date_now>>

\* A button of the settings panel: the handler is added to 'message', then
\* the request is posted.
PanelRequest ==
    /\ page.api
    /\ Len(page.requests) < MaxRequests
    /\ \E command \in {"refresh_script", "toggle_script"}, index \in {0, 1} :
         LET requestId == PanelRequestId(page, command, index)
             serial == Len(page.requests) + 1
             listening ==
               [page EXCEPT !.requests =
                  Append(@, BridgeRequest("gg_invoke", requestId, None,
                                          Some(command)))]
         IN  page' = PostMessage(listening,
                       [type |-> "gg_invoke", requestId |-> requestId,
                        command |-> Some(command), error |-> None,
                        of |-> serial])
    /\ UNCHANGED registry

\* The window delivers the oldest posted message to every 'message' listener:
\* the trusted-side ones first, they were added first, then the handlers of
\* the settings panel.
DeliverMessage ==
    /\ page.messages # <<>>
    /\ LET m == Head(page.messages)
           trusted == DispatchMessage([page EXCEPT !.messages = Tail(@)], m,
                                      page.listeners["message"])
       IN  page' = IF m.type = "gg_invoke_response"
                   THEN DispatchResponse(
                          trusted, Reply("gg_invoke", m.requestId, m.error, m.of))
                   ELSE trusted
    /\ UNCHANGED registry

\* A promise of window.__TAURI__.core.invoke settles, fulfilled or rejected,
\* and its then or catch function makes the reply.
Settle ==
    /\ \E i \in Indices(page.invokes), rejected \in BOOLEAN :
         LET inv == page.invokes[i]
             error == IF rejected THEN Some("error") ELSE None
             settled == [page EXCEPT !.invokes =
                           SubSeq(@, 1, i - 1) \o SubSeq(@, i + 1, Len(@))]
         IN  page' = IF inv.channel = "gm_xhr"
                     THEN DispatchResponse(
                            settled, Reply("gm_xhr", inv.requestId, error, inv.of))
                     ELSE PostMessage(settled,
                            [type |-> "gg_invoke_response",
                             requestId |-> inv.requestId, command |-> None,
                             error |-> error, of |-> inv.of])
    /\ UNCHANGED registry

PageNext ==
    \/ RunPayload
    \/ CreateDocumentElement
    \/ Poll
    \/ Load
    \/ ScriptRequest
    \/ Settle

PageSpec == PageInit /\ [][PageNext]_vars

\* The bridge in a window that has evaluated the payload once, its document
\* having a root element: one script that asks nothing as it starts, the
\* requests it makes later, those of the settings panel, and their replies.
BridgeInit ==
    /\ Setup({<<PageScript(1, "A", TextManual, <<>>)>>}, {NoCache})
    /\ \E t \in BOOLEAN, r \in {"loading", "complete"} :
         page = [Payload(Window(TRUE, r, t)) EXCEPT !.runs = 1]

BridgeNext ==
    \/ Load
    \/ DateTick
    \/ ScriptRequest
    \/ PanelRequest
    \/ DeliverMessage
    \/ Settle

BridgeSpec == BridgeInit /\ [][BridgeNext]_vars

-----------------------------------------------------------------------------
(* The Discord presence hook's wait for the GeoGuessr Event Framework.      *)

\* `gef.events` for what window.GeoGuessrEventFramework holds: reading a
\* member of undefined throws a TypeError.
Events(gef) ==
    CASE gef = "undefined" -> "TypeError"
      [] gef = "no_events" -> "undefined"
      [] OTHER -> "events"

\* initGefListeners: `!gef || !gef.events` returns false; otherwise the four
\* listeners are added to gef.events and it returns true.
initGefListeners(p) ==
    IF p.gef = "undefined" \/ Events(p.gef) = "undefined"
    THEN [returned |-> FALSE, presence |-> p]
    ELSE [returned |-> TRUE,
          presence |-> [p EXCEPT !.gefLoaded = TRUE,
                                 !.listeners = [e \in GefEvents |-> @[e] + 1]]]

\* isGefLoaded: typeof gef !== 'undefined' && gef.events.
isGefLoaded(p) == p.gef # "undefined" /\ Events(p.gef) = "events"

\* The timeout callback of loadGefIfNeeded, two seconds after init.
loadGefIfNeeded(p) ==
    IF isGefLoaded(p)
    THEN initGefListeners([p EXCEPT !.timeout = FALSE]).presence
    ELSE [p EXCEPT !.timeout = FALSE, !.loading = TRUE]

\* The interval callback of waitForGef that goes on one attempt longer.
waitForGef_OneMore(p) ==
    LET init == initGefListeners(p) IN
    IF init.returned
    THEN [init.presence EXCEPT !.interval = FALSE, !.retries = @ + 1]
    ELSE IF p.retries > maxRetries
    THEN [p EXCEPT !.interval = FALSE, !.retries = @ + 1]
    ELSE [p EXCEPT !.retries = @ + 1]

\* The interval callback of waitForGef, every 500 ms.
waitForGef(p) ==
    LET init == initGefListeners(p) IN
    IF init.presence.thrown
    THEN init.presence
    ELSE IF init.returned
    THEN [init.presence EXCEPT !.interval = FALSE, !.retries = @ + 1]
    ELSE IF p.retries >= maxRetries
    THEN [p EXCEPT !.interval = FALSE, !.retries = @ + 1]
    ELSE [p EXCEPT !.retries = @ + 1]

\* The hook is evaluated in a page with a body: init() runs
\* loadGefIfNeeded, which sets the two-second timeout.
PresenceInit ==
    /\ ~page.presence.initialized
    /\ page' = [page EXCEPT !.presence.initialized = TRUE,
                            !.presence.timeout = TRUE]
    /\ UNCHANGED registry

\* A script of the page (a dependency, or the script element the hook
\* appended) assigns window.GeoGuessrEventFramework, or completes it.
GefAppears ==
    /\ \E g \in {"no_events", "ready"} :
          /\ page.presence.gef \in {"undefined", "no_events"}
          /\ g # page.presence.gef
          /\ page' = [page EXCEPT !.presence.gef = g]
    /\ UNCHANGED registry

LoadTimeout ==
    /\ page.presence.timeout
    /\ page' = [page EXCEPT !.presence = loadGefIfNeeded(@)]
    /\ UNCHANGED registry

\* script.onload: waitForGef() starts the interval with retries = 0.
ScriptOnload ==
    /\ page.presence.loading
    /\ page' = [page EXCEPT !.presence.loading = FALSE,
                            !.presence.interval = TRUE,
                            !.presence.retries = 0]
    /\ UNCHANGED registry

\* script.onerror: the failure is logged and nothing polls.
ScriptOnerror ==
    /\ page.presence.loading
    /\ page' = [page EXCEPT !.presence.loading = FALSE]
    /\ UNCHANGED registry

IntervalTick ==
    /\ page.presence.interval
    /\ page' = [page EXCEPT !.presence = waitForGef(@)]
    /\ UNCHANGED registry

GefNext ==
    \/ PresenceInit
    \/ GefAppears
    \/ LoadTimeout
    \/ ScriptOnload
    \/ ScriptOnerror
    \/ IntervalTick

GefSpec == Init /\ [][GefNext]_vars

-----------------------------------------------------------------------------
(* Commands on concurrent threads.  A command takes its mutexes, one lock() *)
(* at a time, runs its body on the collection and the cache as they are     *)
(* then, and writes the documents; the steps of different threads           *)
(* interleave wherever the mutexes allow it.                                *)

Mutexes == {"scripts", "dependencies"}

\* A payload build that locks the cache before the collection.
LockOrder_PayloadReversed(op) ==
    CASE op = "get_initialization_script" -> <<"dependencies", "scripts">>
      [] op \in {"add_script_from_url", "refresh_script", "auto_update_scripts"}
           -> <<"scripts", "dependencies">>
      [] OTHER -> <<"scripts">>

\* The lock() calls a command opens with, in program order.
LockOrder(op) ==
    CASE op \in {"add_script_from_url", "refresh_script", "auto_update_scripts",
                 "get_initialization_script"} -> <<"scripts", "dependencies">>
      [] OTHER -> <<"scripts">>

\* The commands that drop their guards before they save.  The others save
\* with the guard alive and release it as they return.
DropsGuards(op) ==
    op \in {"add_script_from_url", "refresh_script", "auto_update_scripts",
            "get_initialization_script"}

\* A mutex that lets every thread in.
Available_Always(lock, m) == TRUE

\* Mutex::lock returns once no thread holds the mutex.
Available(lock, m) == lock[m] = 0

\* Every guard the thread t holds is dropped.
Released(lock, t) == [m \in Mutexes |-> IF lock[m] = t THEN 0 ELSE lock[m]]

\* The commands the threads are given.
ConcCalls ==
    {[op |-> "add_script_from_url", args |-> <<U2>>],
     [op |-> "toggle_script", args |-> <<1, FALSE>>],
     [op |-> "reorder_script", args |-> <<1, 1>>],
     [op |-> "delete_script", args |-> <<1>>],
     [op |-> "refresh_script", args |-> <<1>>],
     [op |-> "auto_update_scripts", args |-> <<>>],
     [op |-> "get_initialization_script", args |-> <<>>]}

\* The body of a command, between its lock() calls and its saves, on the
\* collection and the cache as they are when it runs.
Body(op, args) ==
    CASE op = "add_script_from_url" ->
           FetchAndRegister(scripts, dependencies, args[1], now)
      [] op = "refresh_script" -> refresh_script(scripts, dependencies, args[1], now)
      [] op = "auto_update_scripts" -> auto_update_scripts(scripts, dependencies, now)
      [] op = "toggle_script" ->
           {ScriptsOnly(o) : o \in toggle_script(scripts, args[1], args[2])}
      [] op = "reorder_script" ->
           {ScriptsOnly(o) : o \in reorder_script(scripts, args[1], args[2])}
      [] op = "delete_script" -> {ScriptsOnly(o) : o \in delete_script(scripts, args[1])}
      [] op = "get_initialization_script" ->
           {Outcome(scripts, dependencies,
                    Ok(get_initialization_script(scripts, dependencies)), <<>>, <<>>)}

\* The thread t goes on as th, the mutexes are owned as lock says.
Threaded(t, th, lock) ==
    rt' = [rt EXCEPT !.threads[t] = th, !.lock = lock]

\* A thread is given a command.
Begin(t) ==
    /\ rt.threads[t].pc = "idle"
    /\ \E c \in ConcCalls :
          LET need == LockOrder(c.op)
          IN  Threaded(t, [Idle EXCEPT !.pc = IF need = <<>> THEN "run" ELSE "lock",
                                       !.op = c.op, !.args = c.args,
                                       !.need = need],
                       rt.lock)
    /\ UNCHANGED <<scripts, dependencies, disk_scripts, disk_deps, now, poisoned,
                   calls, dep_fetches, call, page>>

\* state.<mutex>.lock().unwrap(): the thread waits while another holds the
\* mutex, and panics if the mutex is poisoned.
Acquire(t) ==
    LET th == rt.threads[t]
        m == Head(th.need)
    IN  /\ th.pc = "lock"
        /\ Available(rt.lock, m)
        /\ IF poisoned
           THEN Threaded(t, [th EXCEPT !.pc = "panicked"], Released(rt.lock, t))
           ELSE Threaded(t, [th EXCEPT !.need = Tail(@),
                                       !.pc = IF Tail(th.need) = <<>>
                                              THEN "run" ELSE "lock"],
                         [rt.lock EXCEPT ![m] = t])
        /\ UNCHANGED <<scripts, dependencies, disk_scripts, disk_deps, now,
                       poisoned, calls, dep_fetches, call, page>>

\* The command went the way o: the collection and the cache are what it
\* made them, the clones are taken, and the guards are dropped if the
\* command drops them before it saves.  A panic unwinds and poisons.
Ran_(t, o) ==
    LET th == rt.threads[t]
    IN  /\ scripts' = o.scripts
        /\ dependencies' = o.dependencies
        /\ poisoned' = (poisoned \/ o.panic)
        /\ IF o.panic
           THEN Threaded(t, [th EXCEPT !.pc = "panicked", !.res = o.res],
                         Released(rt.lock, t))
           ELSE Threaded(t, [th EXCEPT !.pc = "save", !.res = o.res,
                                       !.writes = o.writes,
                                       !.scripts_clone = o.scripts,
                                       !.dependencies_clone = o.dependencies],
                         IF DropsGuards(th.op) THEN Released(rt.lock, t)
                         ELSE rt.lock)
        /\ UNCHANGED <<disk_scripts, disk_deps, now, calls, dep_fetches, call, page>>

\* add_script_from_url: "Check for duplicates".
Check(t) ==
    LET th == rt.threads[t]
    IN  /\ th.pc = "run"
        /\ th.op = "add_script_from_url"
        /\ IF AnyWithUrl(scripts, th.args[1])
           THEN Ran_(t, Outcome(scripts, dependencies, Err(ErrDuplicate), <<>>, <<>>))
           ELSE /\ Threaded(t, [th EXCEPT !.pc = "fetch"], rt.lock)
                /\ UNCHANGED <<scripts, dependencies, disk_scripts, disk_deps, now,
                               poisoned, calls, dep_fetches, call, page>>

\* The body of the command runs to its saves.
Run(t) ==
    LET th == rt.threads[t]
    IN  /\ \/ th.pc = "run" /\ th.op # "add_script_from_url"
           \/ th.pc = "fetch"
        /\ \E o \in Body(th.op, th.args) : Ran_(t, o)

\* save_scripts or save_dependencies: fs::write of the whole document.
Save(t) ==
    LET th == rt.threads[t]
        w == th.writes[th.written + 1]
    IN  /\ th.pc = "save"
        /\ th.written < Len(th.writes)
        /\ disk_scripts' = IF w.store = "scripts" /\ w.ok
                           THEN th.scripts_clone ELSE disk_scripts
        /\ disk_deps' = IF w.store = "dependencies" /\ w.ok
                        THEN th.dependencies_clone ELSE disk_deps
        /\ Threaded(t, [th EXCEPT !.written = @ + 1], rt.lock)
        /\ UNCHANGED <<scripts, dependencies, now, poisoned, calls, dep_fetches,
                       call, page>>

\* The command returns: the guards still alive are dropped.
Finish(t) ==
    LET th == rt.threads[t]
    IN  /\ th.pc = "save"
        /\ th.written = Len(th.writes)
        /\ Threaded(t, [th EXCEPT !.pc = "done"], Released(rt.lock, t))
        /\ UNCHANGED <<scripts, dependencies, disk_scripts, disk_deps, now,
                       poisoned, calls, dep_fetches, call, page>>

ConcNext ==
    \E t \in Threads :
       \/ Begin(t)
       \/ Acquire(t)
       \/ Check(t)
       \/ Run(t)
       \/ Save(t)
       \/ Finish(t)

ConcSpec == Init /\ [][ConcNext]_vars

-----------------------------------------------------------------------------
(* reload_scripts, an async command: its calls run as tasks that can        *)
(* overlap, each suspended at its sleep, while the event loop serves exit   *)
(* requests.                                                                *)

\* set_reloading(true), the first statement of reload_scripts.
ReloadBegin(t) ==
    /\ ~rt.exited
    /\ rt.threads[t].pc = "idle"
    /\ rt' = [rt EXCEPT !.reloading = TRUE,
                        !.threads[t] = [Idle EXCEPT !.pc = "payload",
                                                    !.op = "reload_scripts"]]
    /\ UNCHANGED <<scripts, dependencies, disk_scripts, disk_deps, now, poisoned,
                   calls, dep_fetches, call, page>>

\* get_initialization_script(&state) under both locks, the old window is
\* closed, and the task sleeps.  A poisoned mutex makes lock().unwrap()
\* panic: the task ends there.
ReloadPayload(t) ==
    /\ ~rt.exited
    /\ rt.threads[t].pc = "payload"
    /\ \A m \in Mutexes : Available(rt.lock, m)
    /\ IF poisoned
       THEN /\ rt' = [rt EXCEPT !.threads[t].pc = "panicked"]
            /\ page' = page
       ELSE /\ rt' = [rt EXCEPT !.threads[t].pc = "sleep",
                                !.threads[t].init_script =
                                    get_initialization_script(scripts, dependencies)]
            /\ page' = NoPage
    /\ UNCHANGED <<scripts, dependencies, disk_scripts, disk_deps, now, poisoned,
                   calls, dep_fetches, call>>

\* WebviewWindowBuilder::build succeeds or fails, set_reloading(false), and
\* the command returns the result.
ReloadBuild(t) ==
    /\ ~rt.exited
    /\ rt.threads[t].pc = "sleep"
    /\ \E built \in BOOLEAN :
          /\ page' = IF built
                     THEN [NoPage EXCEPT !.init_script = rt.threads[t].init_script]
                     ELSE page
          /\ rt' = [rt EXCEPT !.reloading = FALSE,
                              !.threads[t].pc = "done",
                              !.threads[t].res =
                                  IF built THEN Ok(<<>>)
                                  ELSE Err(<<"Failed to create window">>)]
    /\ UNCHANGED <<scripts, dependencies, disk_scripts, disk_deps, now, poisoned,
                   calls, dep_fetches, call>>

\* RunEvent::ExitRequested: the exit is prevented if is_reloading(), and
\* the process exits otherwise.
ExitRequested ==
    /\ ~rt.exited
    /\ rt' = [rt EXCEPT !.exited = ~rt.reloading]
    /\ rt' # rt
    /\ UNCHANGED <<scripts, dependencies, disk_scripts, disk_deps, now, poisoned,
                   calls, dep_fetches, call, page>>

\* The settings panel toggles a script between two reloads.
PanelToggle ==
    /\ ~rt.exited
    /\ ToggleScript

ReloadNext ==
    \/ \E t \in Threads : ReloadBegin(t)
    \/ \E t \in Threads : ReloadPayload(t)
    \/ \E t \in Threads : ReloadBuild(t)
    \/ ExitRequested
    \/ PanelToggle

ReloadSpec == Init /\ [][ReloadNext]_vars

-----------------------------------------------------------------------------
(* Properties.  `call` is the command that ran last: call.scripts and       *)
(* call.dependencies are the collection and the cache it started from,      *)
(* call.at the clock it read, scripts and dependencies what it left.        *)

Ran(op) == call.op = op

\* The ids of a collection.
IdsOf(ss) == {ss[i].id : i \in Indices(ss)}

\* C1: add_from_url(U) on a registry that already holds a script with source
\* URL U fails with the duplicate-source error, sends no request and leaves
\* the Script collection and the Dependency cache as they were.
C1_DuplicateSourceRejected ==
    (/\ Ran("add_script_from_url")
     /\ \E i \in Indices(call.scripts) : call.scripts[i].url = <<call.args[1]>>)
    => /\ call.res = Err(<<"A script from this URL already exists">>)
       /\ call.log = <<>>
       /\ scripts = call.scripts
       /\ dependencies = call.dependencies

C1_Witness ==
    /\ Ran("add_script_from_url")
    /\ call.res.err = <<"A script from this URL already exists">>
    /\ \E i \in Indices(scripts) : scripts[i].url = <<call.args[1]>>

\* C2: in add_from_url the first dependency fetch that fails ends the call
\* with an error naming that dependency URL: it is the last request of the
\* call, no script is added, and every dependency fetched before it in the
\* call is in the in-memory cache afterwards.
C2_FirstDependencyFailureAborts ==
    \A k \in Indices(call.log) :
        (/\ Ran("add_script_from_url")
         /\ call.log[k].kind = "dependency"
         /\ ~call.log[k].res.ok)
        => /\ k = Len(call.log)
           /\ ~call.res.ok
           /\ call.res.err =
                <<"Failed to fetch dependency", call.log[k].url, call.log[k].res.err>>
           /\ scripts = call.scripts
           /\ \A j \in 1..(k - 1) :
                call.log[j].kind = "dependency"
                => /\ call.log[j].url \in DOMAIN dependencies
                   /\ dependencies[call.log[j].url].code = call.log[j].res.val[1]

C2_Witness ==
    /\ Ran("add_script_from_url")
    /\ Len(call.log) = 3
    /\ call.log[2].kind = "dependency" /\ call.log[2].res.ok
    /\ call.log[3].kind = "dependency" /\ ~call.log[3].res.ok
    /\ call.log[2].url \in DOMAIN dependencies
    /\ call.log[2].url \notin DOMAIN call.dependencies

\* C3 (as claimed): whenever add_from_url, toggle, reorder, delete or refresh
\* returns an error, the in-memory Script collection is what it was before
\* the call.
C3_ErrorLeavesCollection ==
    (/\ call.op \in {"add_script_from_url", "toggle_script", "reorder_script",
                     "delete_script", "refresh_script"}
     /\ ~call.res.ok)
    => scripts = call.scripts

\* C4 (as claimed): a successful add_from_url appends exactly one Script, with
\* an id no script had, enabled, the requested URL, no stored error, and an
\* order one above the largest order of the registry it was added to.
C4_AppendsWithNextOrder ==
    (Ran("add_script_from_url") /\ call.res.ok)
    => /\ Len(scripts) = Len(call.scripts) + 1
       /\ SubSeq(scripts, 1, Len(call.scripts)) = call.scripts
       /\ LET new == scripts[Len(scripts)]
          IN  /\ new.id \notin IdsOf(call.scripts)
              /\ new.enabled
              /\ new.url = <<call.args[1]>>
              /\ new.last_fetch_error = <<>>
              /\ \/ call.scripts = <<>>
                 \/ /\ \A i \in Indices(call.scripts) :
                          new.order > call.scripts[i].order
                    /\ \E i \in Indices(call.scripts) :
                          new.order - call.scripts[i].order = 1

\* C5: over the life of the process each dependency URL is fetched
\* successfully at most once, and no command requests a dependency URL that
\* was a key of the Dependency cache when the command started.
C5_DependencyFetchedOnce ==
    /\ \A u \in DOMAIN dep_fetches : dep_fetches[u] <= 1
    /\ \A k \in Indices(call.log) :
         call.log[k].kind = "dependency"
         => call.log[k].url \notin DOMAIN call.dependencies

C5_Witness ==
    /\ Ran("add_script_from_url")
    /\ call.res.ok
    /\ \E u \in DOMAIN call.dependencies :
         /\ \E i \in Indices(scripts[Len(scripts)].requires) :
              scripts[Len(scripts)].requires[i] = u
         /\ \A k \in Indices(call.log) : call.log[k].url # u
         /\ dep_fetches[u] = 1

\* What a successful update makes of the script `old` when the text fetched
\* from its URL is `text` and the clock reads t.
Refreshed(old, new, text, t) ==
    LET m == parse_metadata(text)
    IN  /\ new.id = old.id
        /\ new.enabled = old.enabled
        /\ new.order = old.order
        /\ new.url = old.url
        /\ new.code = text
        /\ new.name = (IF m.name = <<>> THEN "Unnamed Script" ELSE m.name[1])
        /\ new.version = m.version
        /\ new.description = m.description
        /\ new.author = m.author
        /\ new.requires = m.requires
        /\ new.last_updated = <<t>>
        /\ new.last_fetch_error = <<>>

\* The request for a script's own text at index k of a log succeeded together
\* with every dependency request that follows it up to the next script.
UpdateSucceeded(log, k) ==
    /\ log[k].kind = "script"
    /\ \A j \in k..Len(log) :
         (\A n \in (k + 1)..j : log[n].kind = "dependency") => log[j].res.ok

\* C6: a successful refresh(id), and a successful update of one script inside
\* run_once, keep the script's id, enabled flag, order and source URL, replace
\* code, name, version, description, author and dependencies by the fetched
\* ones, set last_updated to the clock and clear the stored error; refresh
\* changes no other script and keeps the script's position.
C6_UpdateKeepsUserSettings ==
    /\ (Ran("refresh_script") /\ call.res.ok)
       => /\ Len(scripts) = Len(call.scripts)
          /\ \A i \in Indices(call.scripts) :
               IF call.scripts[i].id = call.args[1]
               THEN Refreshed(call.scripts[i], scripts[i],
                              call.log[1].res.val[1], call.at)
               ELSE scripts[i] = call.scripts[i]
    /\ Ran("auto_update_scripts")
       => /\ Len(scripts) = Len(call.scripts)
          /\ \A i \in Indices(call.scripts) : \A k \in Indices(call.log) :
               (/\ call.scripts[i].url = <<call.log[k].url>>
                /\ UpdateSucceeded(call.log, k))
               => Refreshed(call.scripts[i], scripts[i],
                            call.log[k].res.val[1], call.at)

C6_Witness ==
    /\ Ran("refresh_script")
    /\ call.res.ok
    /\ \E i \in Indices(scripts) :
         /\ scripts[i].id = call.args[1]
         /\ ~scripts[i].enabled
         /\ scripts[i].code # call.scripts[i].code
         /\ scripts[i].last_updated # call.scripts[i].last_updated

\* C7: when the script fetch or a dependency fetch of refresh(id) fails,
\* refresh returns that error and the Script collection, the refreshed script
\* included, is what it was before the call.
C7_FailedRefreshLeavesScript ==
    \A k \in Indices(call.log) :
        (Ran("refresh_script") /\ ~call.log[k].res.ok)
        => /\ ~call.res.ok
           /\ call.res.err =
                (IF call.log[k].kind = "script" THEN call.log[k].res.err
                 ELSE <<"Failed to fetch dependency", call.log[k].url,
                        call.log[k].res.err>>)
           /\ scripts = call.scripts

C7_Witness ==
    /\ Ran("refresh_script")
    /\ Len(call.log) >= 2
    /\ ~call.log[Len(call.log)].res.ok
    /\ call.log[Len(call.log)].kind = "dependency"
    /\ \E i \in Indices(scripts) : scripts[i].id = call.args[1]

\* C8: a script with no source URL is never changed by refresh or by
\* auto-update: refresh(id) on it fails with the manually-added error and
\* sends no request, run_once sends no request for it, and after either
\* command every such script is what it was before.
C8_ManualScriptUntouched ==
    /\ \A i \in Indices(call.scripts) :
         (/\ Ran("refresh_script")
          /\ call.scripts[i].id = call.args[1]
          /\ call.scripts[i].url = <<>>)
         => /\ call.res = Err(<<"Cannot refresh manually added script">>)
            /\ call.log = <<>>
            /\ scripts = call.scripts
    /\ \A i \in Indices(call.scripts) :
         (/\ call.op \in {"refresh_script", "auto_update_scripts"}
          /\ call.scripts[i].url = <<>>)
         => /\ i <= Len(scripts)
            /\ scripts[i] = call.scripts[i]
    /\ (/\ Ran("auto_update_scripts")
        /\ \A i \in Indices(call.scripts) : call.scripts[i].url = <<>>)
       => call.log = <<>>

C8_Witness ==
    /\ Ran("auto_update_scripts")
    /\ call.log # <<>>
    /\ \E i \in Indices(scripts) : scripts[i].url = <<>>
    /\ \E i \in Indices(scripts) : scripts[i] # call.scripts[i]

\* C9 (as claimed): delete(id) with an id no script has fails with NotFound
\* and leaves the collection unchanged; with an id that is present it removes
\* that script and keeps the others in their order.
C9_DeleteAbsentIsNotFound ==
    Ran("delete_script")
    => IF call.args[1] \notin IdsOf(call.scripts)
       THEN /\ call.res = Err(<<"Script not found">>)
            /\ scripts = call.scripts
       ELSE \E i \in Indices(call.scripts) :
              /\ call.scripts[i].id = call.args[1]
              /\ scripts = SubSeq(call.scripts, 1, i - 1)
                             \o SubSeq(call.scripts, i + 1, Len(call.scripts))

\* C10: toggle(id, enabled) and reorder(id, newOrder) with an id no script has
\* fail with NotFound, leave the collection unchanged and write nothing to
\* the Script store.
C10_AbsentIdIsNotFound ==
    (/\ call.op \in {"toggle_script", "reorder_script"}
     /\ call.args[1] \notin IdsOf(call.scripts))
    => /\ call.res = Err(<<"Script not found">>)
       /\ scripts = call.scripts
       /\ call.writes = <<>>

C10_Witness ==
    /\ Ran("toggle_script")
    /\ call.res.err = <<"Script not found">>
    /\ scripts # <<>>
    /\ call.args[1] \notin IdsOf(scripts)

\* C11: a successful toggle(id, e) changes only the enabled flag of the script
\* with that id and a successful reorder(id, n) only its order: every other
\* field, every other script (their orders included, also when n is already
\* the order of another script), the order of the collection and the
\* Dependency cache are what they were.
C11_ToggleReorderChangeOneField ==
    (call.op \in {"toggle_script", "reorder_script"} /\ call.res.ok)
    => /\ dependencies = call.dependencies
       /\ \E i \in Indices(call.scripts) :
            /\ call.scripts[i].id = call.args[1]
            /\ scripts =
                 [call.scripts EXCEPT ![i] =
                    IF call.op = "toggle_script"
                    THEN [@ EXCEPT !.enabled = call.args[2]]
                    ELSE [@ EXCEPT !.order = call.args[2]]]

C11_Witness ==
    /\ Ran("reorder_script")
    /\ call.res.ok
    /\ \E i, j \in Indices(scripts) :
         /\ i # j
         /\ scripts[i].id = call.args[1]
         /\ call.scripts[i].order # call.args[2]
         /\ scripts[i].order = call.args[2]
         /\ scripts[j].order = call.args[2]
         /\ dependencies # NoCache

\* The last command sent a request for the text of the script at url.
Attempted(url) ==
    \E k \in Indices(call.log) : call.log[k].kind = "script" /\ call.log[k].url = url

\* C12: run_once requests the text of every script that has a source URL and
\* whose last_updated is absent or at least 24 hours before the clock, and it
\* leaves unchanged, without a request, every script with a source URL and no
\* stored error whose last_updated is less than 24 hours before the clock.
C12_UpdatesAfterOneDay ==
    Ran("auto_update_scripts")
    => \A i \in Indices(call.scripts) :
         LET s == call.scripts[i]
         IN  s.url # <<>>
             => /\ (\/ s.last_updated = <<>>
                    \/ call.at - s.last_updated[1] >= 86400)
                   => Attempted(s.url[1])
                /\ (/\ s.last_fetch_error = <<>>
                    /\ s.last_updated # <<>>
                    /\ s.last_updated[1] <= call.at
                    /\ call.at - s.last_updated[1] < 86400)
                   => /\ ~Attempted(s.url[1])
                      /\ scripts[i] = s

\* A run at exactly 24 hours re-fetched one script, and a run one second
\* short of 24 hours skipped one.
C12_Witness ==
    /\ Ran("auto_update_scripts")
    /\ \E i \in Indices(call.scripts) :
         /\ call.scripts[i].url # <<>>
         /\ call.at - call.scripts[i].last_updated[1] = 86400
         /\ Attempted(call.scripts[i].url[1])
         /\ scripts[i].code # call.scripts[i].code
    /\ \E i \in Indices(call.scripts) :
         /\ call.scripts[i].url # <<>>
         /\ call.scripts[i].last_updated # <<>>
         /\ call.at - call.scripts[i].last_updated[1] < 86400

\* C13 (as claimed): run_once skips a script with a source URL and a stored
\* error while its last_updated is less than 1 hour old and requests its text
\* again once its last_updated is at least 1 hour old.
C13_ErrorRetriedAfterOneHour ==
    Ran("auto_update_scripts")
    => \A i \in Indices(call.scripts) :
         LET s == call.scripts[i]
         IN  (/\ s.url # <<>>
              /\ s.last_fetch_error # <<>>
              /\ s.last_updated # <<>>
              /\ s.last_updated[1] <= call.at)
             => IF call.at - s.last_updated[1] < 3600
                THEN ~Attempted(s.url[1]) /\ scripts[i] = s
                ELSE Attempted(s.url[1])

\* Request j of a log belongs to the update that starts with the script
\* request k: only dependency requests lie between them.
SameUpdate(log, k, j) ==
    /\ log[k].kind = "script"
    /\ j >= k
    /\ \A n \in (k + 1)..j : log[n].kind = "dependency"

\* C14: run_once returns no fetch failure: when the fetch of a script or of one
\* of its dependencies fails, the script gets that message as its stored error
\* and the clock as last_updated and is otherwise unchanged, every script that
\* is due is still requested, and the count returned is the number of scripts
\* whose update succeeded in the run.
C14_RunOnceRecordsFailures ==
    Ran("auto_update_scripts")
    => /\ \/ call.res.ok
          \/ call.res.err \in {<<"Failed to write scripts file">>,
                                <<"Failed to write dependencies file">>}
       /\ Len(scripts) = Len(call.scripts)
       /\ \A i \in Indices(call.scripts) : \A k, j \in Indices(call.log) :
            (/\ call.scripts[i].url = <<call.log[k].url>>
             /\ SameUpdate(call.log, k, j)
             /\ ~call.log[j].res.ok)
            => scripts[i] =
                 [call.scripts[i] EXCEPT
                    !.last_fetch_error =
                       <<IF j = k THEN call.log[j].res.err
                         ELSE <<"Failed to fetch dependency", call.log[j].url,
                                call.log[j].res.err>> >>,
                    !.last_updated = <<call.at>>]
       /\ \A i \in Indices(call.scripts) :
            (/\ call.scripts[i].url # <<>>
             /\ call.scripts[i].last_updated # <<>>
             /\ call.at - call.scripts[i].last_updated[1] >= 86400)
            => Attempted(call.scripts[i].url[1])
       /\ call.res.ok
          => call.res.val[1] =
               Cardinality({k \in Indices(call.log) : UpdateSucceeded(call.log, k)})

\* The update of the first script failed, the script after it was updated, and
\* the run returned the count 1.
C14_Witness ==
    /\ Ran("auto_update_scripts")
    /\ call.res.ok
    /\ call.res.val[1] = 1
    /\ Len(scripts) = 2
    /\ scripts[1].last_fetch_error # <<>>
    /\ scripts[1].last_updated = <<call.at>>
    /\ scripts[1].code = call.scripts[1].code
    /\ scripts[2].last_fetch_error = <<>>
    /\ scripts[2].last_updated = <<call.at>>
    /\ call.scripts[2].last_updated # <<call.at>>

\* C15: no two scripts of the collection have the same id, and no command
\* changes the id of a script: after toggle, reorder, refresh, run_once and add
\* every script that was there has its id at its place, and delete leaves
\* scripts that were there.
C15_IdsUniqueAndStable ==
    /\ \A i, j \in Indices(scripts) : scripts[i].id = scripts[j].id => i = j
    /\ call.op \in {"toggle_script", "reorder_script", "refresh_script",
                    "auto_update_scripts", "add_script_from_url"}
       => /\ Len(scripts) >= Len(call.scripts)
          /\ \A i \in Indices(call.scripts) : scripts[i].id = call.scripts[i].id
    /\ Ran("delete_script")
       => \A i \in Indices(scripts) :
            \E j \in Indices(call.scripts) : scripts[i] = call.scripts[j]

\* A refresh replaced the text of one of two scripts.
C15_Witness ==
    /\ Ran("refresh_script")
    /\ call.res.ok
    /\ Len(scripts) = 2
    /\ \E i \in Indices(scripts) :
         /\ scripts[i].id = call.args[1]
         /\ call.scripts[i].id = call.args[1]
         /\ scripts[i].code # call.scripts[i].code

\* C16 (as claimed): a successful refresh of a script that declares a
\* dependency URL which was in the Dependency cache requests that URL again
\* and leaves, as the one cache entry of the URL, the text it got and the
\* clock as its last-fetched time.
C16_RefreshOverwritesDependency ==
    (Ran("refresh_script") /\ call.res.ok)
    => \A i \in Indices(scripts) :
         scripts[i].id = call.args[1]
         => \A r \in Indices(scripts[i].requires) :
              LET dep_url == scripts[i].requires[r]
              IN  dep_url \in DOMAIN call.dependencies
                  => /\ dep_url \in DOMAIN dependencies
                     /\ \E k \in Indices(call.log) :
                          /\ call.log[k].kind = "dependency"
                          /\ call.log[k].url = dep_url
                          /\ call.log[k].res.ok
                          /\ dependencies[dep_url].code = call.log[k].res.val[1]
                     /\ dependencies[dep_url].last_updated = call.at

\* C17: the set of URLs of the Dependency cache never shrinks: every URL that
\* was a key when a command started is a key when it has returned, also after
\* a delete of the only script that requires it and after a refresh or update
\* that leaves no script requiring it.
C17_CacheNeverShrinks ==
    \A u \in DOMAIN call.dependencies : u \in DOMAIN dependencies

\* A delete removed the only script that required a cached URL.
C17_Witness ==
    /\ Ran("delete_script")
    /\ call.res.ok
    /\ \E u \in DOMAIN dependencies :
         /\ \E i \in Indices(call.scripts) : \E r \in Indices(call.scripts[i].requires) :
              call.scripts[i].requires[r] = u
         /\ \A i \in Indices(scripts) : \A r \in Indices(scripts[i].requires) :
              scripts[i].requires[r] # u

\* C18 (as claimed): the dependency list stored on a script that was fetched
\* holds every URL its header requires, each once, in the order in which the
\* header first requires them, also when the header repeats a URL.
C18_RequiresListedOnce ==
    \A i \in Indices(scripts) :
        LET s == scripts[i]
            declared(u) == {n \in Indices(s.code) : s.code[n] = <<"@require", u>>}
        IN  s.url # <<>>
            => /\ \A a, b \in Indices(s.requires) :
                    s.requires[a] = s.requires[b] => a = b
               /\ \A n \in Indices(s.code) :
                    s.code[n][1] = "@require"
                    => \E a \in Indices(s.requires) : s.requires[a] = s.code[n][2]
               /\ \A a, b \in Indices(s.requires) :
                    (/\ a < b
                     /\ \A c \in 1..(b - 1) : s.requires[c] # s.requires[b])
                    => \E m \in declared(s.requires[a]) :
                         \A n \in declared(s.requires[b]) : m < n

\* C19: the payload has one script unit for each enabled script and none for
\* a disabled one, each with the script's name and code, in ascending order of
\* the order field, scripts of equal order in their order in the collection.
C19_EnabledScriptsInOrder ==
    Ran("get_initialization_script")
    => LET units == SelectSeq(call.res.val[1], LAMBDA u : u.kind = "script")
           ss == call.scripts
           enabled == {i \in Indices(ss) : ss[i].enabled}
       IN  /\ Len(units) = Cardinality(enabled)
           /\ \E f \in [Indices(units) -> enabled] :
                /\ \A k, l \in Indices(units) :
                     k < l => \/ ss[f[k]].order < ss[f[l]].order
                              \/ /\ ss[f[k]].order = ss[f[l]].order
                                 /\ f[k] < f[l]
                /\ \A k \in Indices(units) :
                     /\ units[k].code = ss[f[k]].code
                     /\ units[k].label = <<ss[f[k]].name>>

\* A payload whose two script units are in the reverse of collection order.
C19_Witness ==
    /\ Ran("get_initialization_script")
    /\ Len(call.scripts) = 2
    /\ call.scripts[1].enabled /\ call.scripts[2].enabled
    /\ call.scripts[1].order > call.scripts[2].order
    /\ LET units == SelectSeq(call.res.val[1], LAMBDA u : u.kind = "script")
       IN  /\ Len(units) = 2
           /\ units[1].code = call.scripts[2].code
           /\ units[2].code = call.scripts[1].code

\* C20: the payload has at most one unit for a dependency URL, one for each
\* URL an enabled script requires and none for a URL only disabled scripts
\* require, in the order in which the URLs are first met going through the
\* enabled scripts in sorted order; a URL that is not in the Dependency cache
\* gets a warning in place of its code, and every other dependency and every
\* enabled script is emitted all the same.
C20_DependenciesOnceInFirstSeenOrder ==
    Ran("get_initialization_script")
    => LET D == SelectSeq(call.res.val[1],
                          LAMBDA u : u.kind \in {"dependency", "missing"})
           ss == call.scripts
           enabled == {i \in Indices(ss) : ss[i].enabled}
           Places(u) ==
               UNION {{<<i, r>> : r \in {q \in Indices(ss[i].requires) :
                                           ss[i].requires[q] = u}} : i \in enabled}
           Earlier(p, q) ==
               \/ ss[p[1]].order < ss[q[1]].order
               \/ /\ ss[p[1]].order = ss[q[1]].order
                  /\ \/ p[1] < q[1]
                     \/ p[1] = q[1] /\ p[2] < q[2]
       IN  /\ \A a, b \in Indices(D) : D[a].url = D[b].url => a = b
           /\ \A a \in Indices(D) : Places(D[a].url[1]) # {}
           /\ \A i \in enabled : \A r \in Indices(ss[i].requires) :
                \E a \in Indices(D) : D[a].url = <<ss[i].requires[r]>>
           /\ \A a, b \in Indices(D) :
                a < b => \E p \in Places(D[a].url[1]) :
                           \A q \in Places(D[b].url[1]) : Earlier(p, q)
           /\ \A a \in Indices(D) :
                IF D[a].url[1] \in DOMAIN call.dependencies
                THEN /\ D[a].kind = "dependency"
                     /\ D[a].code = call.dependencies[D[a].url[1]].code
                ELSE D[a].kind = "missing"
           /\ Len(SelectSeq(call.res.val[1], LAMBDA u : u.kind = "script"))
                = Cardinality(enabled)

\* A payload with a warning for a missing dependency, a dependency unit and a
\* script unit.
C20_Witness ==
    /\ Ran("get_initialization_script")
    /\ \E a, b, c \in Indices(call.res.val[1]) :
         /\ call.res.val[1][a].kind = "missing"
         /\ call.res.val[1][b].kind = "dependency"
         /\ call.res.val[1][c].kind = "script"

\* C21: whatever the load state of the document when the payload starts, the
\* trusted-side listeners are registered before the code of any enabled script
\* runs, so that a request a script issues with a url as it starts is received
\* by the listener of 'gm_xhr_request'.
C21_SynchronousRequestReceived ==
    \A k \in Indices(page.requests) :
       (page.requests[k].channel = "gm_xhr" /\ IsSome(page.requests[k].url))
          => page.requests[k].heard >= 1

\* The script of a unit throws as it runs, or its text does not parse.
Fails(unit) ==
    Unparsable(unit.code) \/ \E n \in Indices(unit.code) : unit.code[n] = StmtThrow

Reported(event, label) ==
    \E c \in Indices(page.console) :
       page.console[c] = [event |-> event, name |-> label]

\* C22: once the payload has injected its units and the document has loaded,
\* every script that throws or fails to evaluate was reported as an error under
\* its own name, and every script that can run has run, whatever the scripts
\* before it did.
C22_FailureReportedAndIsolated ==
    (page.api /\ page.readyState = "complete") =>
       \A k \in Indices(page.init_script) :
          LET unit == page.init_script[k]
          IN  unit.kind = "script" =>
                /\ Fails(unit) => Reported("Error in script", unit.label)
                /\ ~Unparsable(unit.code) => Reported("Executing script", unit.label)

\* How many times the console holds the report.
Count(event, label) ==
    Cardinality({c \in Indices(page.console) :
                   page.console[c] = [event |-> event, name |-> label]})

\* C23: however many times the payload is evaluated in the window, the shim,
\* the dependencies and the scripts are injected once, every script runs at
\* most once, each bridge event has one trusted-side listener, and every
\* request is handled at most once.
C23_SecondRunIsNoOp ==
    page.runs >= 1 =>
       /\ \A e \in DOMAIN page.listeners : page.listeners[e] = 1
       /\ Count("Document element ready", None) <= 1
       /\ Count("Loading dependency", None) + Count("Missing dependency", None)
            <= Cardinality({k \in Indices(page.init_script) :
                              page.init_script[k].kind # "script"})
       /\ \A k \in Indices(page.init_script) :
             page.init_script[k].kind = "script" =>
               /\ Count("Queuing script", page.init_script[k].label) <= 1
               /\ Count("Executing script", page.init_script[k].label) <= 1
       /\ \A k \in Indices(page.requests) : page.requests[k].heard <= 1

\* The payload was evaluated twice, its units were injected, a script ran and a
\* request was handled.
C23_Witness ==
    /\ page.runs >= 2
    /\ page.api
    /\ \E k \in Indices(page.init_script) :
          /\ page.init_script[k].kind = "script"
          /\ Count("Executing script", page.init_script[k].label) = 1
    /\ Count("Loading dependency", None) = 1
    /\ \E k \in Indices(page.requests) : page.requests[k].heard = 1

\* C24: with several requests outstanding and their replies made in any
\* order, every reply a caller receives is the reply that was made for its own
\* request: no caller receives the result or the error of another request.
C24_ReplyReachesItsCaller ==
    \A k \in Indices(page.requests) :
       \A j \in Indices(page.requests[k].replies) :
          page.requests[k].replies[j].of = k

\* C25: any two bridge requests of the same channel that are outstanding at
\* the same time carry different correlation ids, also when both were issued at
\* the same reading of the clock.
C25_OutstandingIdsDiffer ==
    \A a, b \in Indices(page.requests) :
       (/\ a # b
        /\ page.requests[a].listening
        /\ page.requests[b].listening
        /\ page.requests[a].channel = page.requests[b].channel)
          => page.requests[a].requestId # page.requests[b].requestId

\* C26: every request has one response handler keyed by its correlation id:
\* the handler is pending exactly as long as the caller's callback has not
\* fired, the callback fires at most once, and only for a reply that carries
\* the id of the request, so a reply with another id leaves the handler pending
\* and fires nothing.
C26_OneShotListenerPerRequest ==
    \A k \in Indices(page.requests) :
       LET r == page.requests[k]
       IN  /\ Len(r.replies) <= 1
           /\ r.listening <=> r.replies = <<>>
           /\ \A j \in Indices(r.replies) :
                 /\ r.replies[j].channel = r.channel
                 /\ r.replies[j].requestId = r.requestId

\* One request got its reply and its handler is gone, while the handler of
\* another request of the same channel, with another id, is still pending.
C26_Witness ==
    \E a, b \in Indices(page.requests) :
       /\ page.requests[a].channel = page.requests[b].channel
       /\ page.requests[a].requestId # page.requests[b].requestId
       /\ Len(page.requests[a].replies) = 1
       /\ ~page.requests[a].listening
       /\ page.requests[b].listening
       /\ page.requests[b].heard = 1

\* The request has been put before the trusted side: a 'gm_xhr_request' event
\* is dispatched inside the call, a posted message once the queue is empty.
Delivered(k) == page.requests[k].channel = "gm_xhr" \/ page.messages = <<>>

\* C27: without the privileged transport, every cross-origin HTTP request and
\* every generic-invoke request is answered by the trusted side with a reply
\* that carries the id of the request and an error string.
C27_AbsentTransportAnswers ==
    ~page.tauri =>
       \A k \in Indices(page.requests) :
          Delivered(k) =>
             /\ Len(page.requests[k].replies) = 1
             /\ \A j \in Indices(page.requests[k].replies) :
                   /\ page.requests[k].replies[j].requestId = page.requests[k].requestId
                   /\ IsSome(page.requests[k].replies[j].error)

\* C28: once every privileged operation has completed and every posted message
\* has been delivered, each request sent through the bridge, whatever its
\* arguments, has received exactly one reply, and that reply carries its id.
C28_EveryRequestAnswered ==
    (page.messages = <<>> /\ page.invokes = <<>>) =>
       \A k \in Indices(page.requests) :
          /\ Len(page.requests[k].replies) = 1
          /\ \A j \in Indices(page.requests[k].replies) :
                page.requests[k].replies[j].requestId = page.requests[k].requestId

\* The last command added a script whose text was fetched: the header of that
\* text declares the dependencies in `Declared`.
FetchedText == call.log # <<>> /\ call.log[1].kind = "script" /\ call.log[1].res.ok

Declared == parse_metadata(call.log[1].res.val[1]).requires

\* C29: no request is ever sent to a URL that is not https; an add with such a
\* URL returns the security error, registers no script and adds no cache
\* entry; an add of a script that declares such a URL as a dependency is
\* rejected, the script is not registered and the dependency is not requested.
C29_NonHttpsNeverRequested ==
    /\ \A k \in Indices(call.log) : StartsWithHttps(call.log[k].url)
    /\ \A u \in DOMAIN dependencies : StartsWithHttps(u)
    /\ (Ran("add_script_from_url") /\ ~StartsWithHttps(call.args[1])) =>
          /\ call.res = Err(ErrHttps)
          /\ call.log = <<>>
          /\ scripts = call.scripts
          /\ dependencies = call.dependencies
    /\ (/\ Ran("add_script_from_url")
        /\ FetchedText
        /\ \E i \in Indices(Declared) : ~StartsWithHttps(Declared[i])) =>
          /\ ~call.res.ok
          /\ scripts = call.scripts

\* A script whose header requires D1 and then the http URL was added: D1 was
\* fetched, the http URL was not requested, and the add failed on it.
C29_Witness ==
    /\ Ran("add_script_from_url")
    /\ call.args = <<U3>>
    /\ FetchedText
    /\ Declared = <<D1, DH>>
    /\ call.res = Err(ErrDependency(DH, ErrHttps))
    /\ scripts = call.scripts

\* C30: a fetched body of more than 10 MiB is rejected with the too-large
\* error: if it was the script, no dependency is requested (its header is not
\* read), no script is registered or changed and the cache is left alone; if
\* it was a dependency, its URL gets no cache entry and no script is registered
\* or changed.  A body of exactly 10 MiB is accepted.
C30_OversizedBodyRejected ==
    \A k \in Indices(call.log) :
       /\ call.log[k].len > MaxBodyLen =>
             /\ call.log[k].res = Err(ErrTooLarge)
             /\ ~call.res.ok
             /\ k = Len(call.log)
             /\ scripts = call.scripts
             /\ call.log[k].kind = "script" => dependencies = call.dependencies
             /\ call.log[k].kind = "dependency" =>
                   call.log[k].url \notin DOMAIN dependencies
       /\ call.log[k].len = MaxBodyLen =>
             /\ call.log[k].res.ok
             /\ call.log[k].kind = "dependency" =>
                   /\ call.log[k].url \in DOMAIN dependencies
                   /\ dependencies[call.log[k].url].code = call.log[k].res.val[1]

\* An add fetched a script of exactly 10 MiB, which was accepted and its header
\* read, and then a dependency of one byte more, which was rejected.
C30_Witness ==
    /\ Ran("add_script_from_url")
    /\ Len(call.log) = 2
    /\ call.log[1].kind = "script"
    /\ call.log[1].len = MaxBodyLen
    /\ call.log[1].res.ok
    /\ call.log[2].kind = "dependency"
    /\ call.log[2].len = MaxBodyLen + 1
    /\ call.res = Err(ErrDependency(D3, ErrTooLarge))

\* C36: whenever no registry operation is in progress, the persisted
\* dependency document has exactly the entries of the in-memory cache.
C36_DependencyDocumentIsTheCache == disk_deps = dependencies

\* C37: starting from an empty cache, every cache entry is stored under its
\* own url, which is an https URL, and every dependency URL listed on a
\* registered script is an https URL.
C37_OnlyHttpsDependencies ==
    /\ \A u \in DOMAIN dependencies :
          dependencies[u].url = u /\ u[1] = "https"
    /\ \A i \in Indices(scripts) :
          \A k \in Indices(scripts[i].requires) : scripts[i].requires[k][1] = "https"

\* A registered script was fetched again, its new text requires an http URL,
\* the call did not take the new text and the script still lists D1 alone.
C37_Witness ==
    /\ (Ran("refresh_script") \/ Ran("auto_update_scripts"))
    /\ FetchedText
    /\ Declared = <<D1, DH>>
    /\ \E i \in Indices(scripts) :
          scripts[i].url = Some(U3) /\ scripts[i].requires = <<D1>>
    /\ D1 \in DOMAIN dependencies


\* The scripts of the collection a run of auto_update_scripts started from
\* whose last_updated is later than the clock the run read.
FutureStamped ==
    {i \in Indices(call.scripts) :
        /\ IsSome(call.scripts[i].url)
        /\ IsSome(call.scripts[i].last_updated)
        /\ Unwrap(call.scripts[i].last_updated) > call.at}

\* C38: run_once computes now - last_updated without underflow for every
\* stored last_updated: a script stamped later than now is treated as
\* recently updated and skipped (it is left as it was and no request is
\* sent for it), and the run returns.
C38_FutureStampSkipped ==
    (Ran("auto_update_scripts") /\ FutureStamped # {})
        => /\ ~poisoned
           /\ \A i \in FutureStamped :
                 /\ scripts[i] = call.scripts[i]
                 /\ \A k \in Indices(call.log) :
                       call.log[k].url # Unwrap(call.scripts[i].url)


\* The listeners the presence hook has on each event of the framework.
Attached(n) == \A e \in GefEvents : page.presence.listeners[e] = n

\* C33: the presence hook's wait for the event framework terminates.  While
\* it polls, the retry counter is at most 20 and no listener is attached;
\* the counter never exceeds 20 by more than one tick, at which point
\* polling has stopped; when the framework never appeared, no listener is
\* attached; no exception is raised; listeners are attached at most once,
\* and only to the framework.
C33_PresenceWaitTerminates ==
    /\ page.presence.retries <= maxRetries + 1
    /\ page.presence.interval
          => page.presence.retries <= maxRetries /\ Attached(0)
    /\ page.presence.gef # "ready" => Attached(0)
    /\ Attached(0) \/ Attached(1)
    /\ ~page.presence.thrown

\* The framework never appeared and polling stopped after the last attempt.
C33_Witness ==
    /\ page.presence.gef = "undefined"
    /\ page.presence.retries = maxRetries + 1
    /\ ~page.presence.interval
    /\ Attached(0)


\* The place of the script unit named label in the payload.
PayloadIndex(label) ==
    CHOOSE k \in Indices(page.init_script) :
       page.init_script[k].kind = "script" /\ page.init_script[k].label = label

\* C39: in the page, every cached dependency is loaded (its code runs as it
\* is injected) before any userscript starts, and the userscripts start in
\* the order the payload emitted them, whether the document had loaded when
\* the payload injected them or loads later.
C39_DependenciesThenScriptsInOrder ==
    \A c, e \in Indices(page.console) :
       /\ (/\ page.console[c].event = "Loading dependency"
           /\ page.console[e].event = "Executing script") => c < e
       /\ (/\ page.console[c].event = "Executing script"
           /\ page.console[e].event = "Executing script"
           /\ c < e)
             => PayloadIndex(page.console[c].name) < PayloadIndex(page.console[e].name)

\* The load event fired after the injection: both scripts waited for it as
\* load listeners, and started after the dependency was loaded.
C39_Witness ==
    /\ Len(page.load) = 2
    /\ page.readyState = "complete"
    /\ Reported("Loading dependency", None)
    /\ Reported("Executing script", <<"A">>)
    /\ Reported("Executing script", <<"B">>)


\* The thread t is inside a command.
InProgress(t) == rt.threads[t].pc \in {"lock", "run", "fetch", "save"}

\* The thread t waits for a mutex another thread holds.
Blocked(t) ==
    /\ rt.threads[t].pc = "lock"
    /\ rt.lock[Head(rt.threads[t].need)] # 0

\* The mutexes the thread t holds.
Held(t) == {m \in {"scripts", "dependencies"} : rt.lock[m] = t}

\* C31: no thread asks for the Scripts lock while it holds the Dependencies
\* lock, and the commands never deadlock: whenever commands are in progress,
\* one of them is not waiting for a mutex and can take its next step, so
\* every command gets to return.
C31_ScriptsBeforeDependencies ==
    /\ \A t \in Threads :
          (rt.threads[t].pc = "lock" /\ "dependencies" \in Held(t))
             => Head(rt.threads[t].need) # "scripts"
    /\ (\E t \in Threads : InProgress(t))
          => \E t \in Threads : InProgress(t) /\ ~Blocked(t)

\* A payload build waits for the Scripts lock, holding nothing, while an add
\* holds both locks and is about to fetch.
C31_Witness ==
    \E t, u \in Threads :
       /\ rt.threads[t].op = "get_initialization_script"
       /\ Blocked(t)
       /\ Held(t) = {}
       /\ rt.threads[u].op = "add_script_from_url"
       /\ rt.threads[u].pc = "fetch"
       /\ Held(u) = {"scripts", "dependencies"}


\* The thread t is in its disk writes: a whole-document write is still to do.
Saving(t) ==
    rt.threads[t].pc = "save" /\ rt.threads[t].written < Len(rt.threads[t].writes)

\* C32: a command writes its documents from clones after it released its
\* lock(s): no thread waits for a mutex that is held by a thread in its disk
\* writes.
C32_NoLockHeldWhileSaving ==
    \A t, u \in Threads :
       (Saving(t) /\ Blocked(u)) => rt.lock[Head(rt.threads[u].need)] # t

\* Two adds of one URL have both returned, and no command that removes a
\* script was given.
BothAdded(t, u) ==
    /\ t # u
    /\ \A v \in Threads : rt.threads[v].op # "delete_script"
    /\ rt.threads[t].op = "add_script_from_url"
    /\ rt.threads[u].op = "add_script_from_url"
    /\ rt.threads[t].args = rt.threads[u].args
    /\ rt.threads[t].pc = "done"
    /\ rt.threads[u].pc = "done"

AllReturned ==
    /\ \E t \in Threads : rt.threads[t].pc = "done"
    /\ \A t \in Threads :
          /\ rt.threads[t].pc \in {"idle", "done"}
          /\ \A w \in Indices(rt.threads[t].writes) : rt.threads[t].writes[w].ok

\* C35: once every concurrently issued command has returned and every disk
\* write succeeded, the persisted scripts document is the in-memory
\* collection.
C35_DocumentIsTheCollection ==
    AllReturned => disk_scripts = scripts


\* The thread t is inside reload_scripts: it has started and its window has
\* neither been built nor failed to build.
Reloading(t) ==
    rt.threads[t].op = "reload_scripts" /\ rt.threads[t].pc \in {"payload", "sleep"}

\* C40: while any reload_scripts call is in progress the RELOADING flag is
\* true, also when two calls overlap, and once no call is in progress the
\* flag is false, whether the window was built or not.
C40_FlagTracksReloads ==
    rt.reloading <=> \E t \in Threads : Reloading(t)

====
